---- MODULE Spec2Model ----
(***************************************************************************)
(* Knowledge-graph memory server: the StorageManager (index section +      *)
(* data section in one flat file, cached index, legacy migration, index    *)
(* rebuild) and the KnowledgeGraphManager facade that sequences            *)
(* load -> edit -> save for every request.                                 *)
(*                                                                         *)
(* A file is modelled as the sequence of its lines.  A line is a marker    *)
(* line, a line of JSON text (held as the value JSON.parse gives for it)   *)
(* or a line that is not JSON.  The pretty-printed index payload is held   *)
(* as one line.  A JS Map is a sequence of <<key, value>> pairs in         *)
(* insertion order; a JS Set of strings is a duplicate-free sequence in    *)
(* insertion order; a JS Set of object literals never merges two members   *)
(* (reference identity), so it is a plain sequence.                        *)
(***************************************************************************)
EXTENDS Integers, Sequences, FiniteSets, TLC

VARIABLES files, memoryFilePath, isIndexLoaded, indexStructure, clock, last,
          pending

vars == <<files, memoryFilePath, isIndexLoaded, indexStructure, clock, last,
          pending>>

----------------------------------------------------------------------------
(* Bounds of the model *)

MaxArgs == 2      \* longest argument list of a facade call
MaxClock == 1     \* last reading of the wall clock

----------------------------------------------------------------------------
(* Universe of values *)

Paths == {"p1", "p2"}
Names == {"A", "B"}
Types == {"t1", "t2"}
ObsStrings == {"x", "y"}
RelTypes == {"r1", "r2"}
Queries == {<<>>, <<"a">>, <<"B">>}

\* what is at a path: no file, or a file holding these lines; fails names
\* the file-system calls that are rejected at the path: "read", "write", or
\* "writeOnce" for a write that is rejected once and accepted afterwards,
\* "reread" for a read that is rejected when it follows a read of the same call
Absent == [exists |-> FALSE, lines |-> <<>>, fails |-> {}]
File(lines) == [exists |-> TRUE, lines |-> lines, fails |-> {}]

INDEX_MARKER_START == [k |-> "marker", v |-> "===INDEX_START==="]
INDEX_MARKER_END == [k |-> "marker", v |-> "===INDEX_END==="]
DATA_MARKER_START == [k |-> "marker", v |-> "===DATA_START==="]

JsonLine(v) == [k |-> "json", v |-> v]
JunkLine == [k |-> "text", v |-> "not json"]
IsMarker(line, marker) == line.k = "marker" /\ line.v = marker.v

\* String.prototype.indexOf(marker) in lines, 1-based; 0 when absent
MarkerPos(lines, marker) ==
  IF \E i \in 1..Len(lines) : IsMarker(lines[i], marker)
  THEN CHOOSE i \in 1..Len(lines) :
         IsMarker(lines[i], marker) /\ \A j \in 1..(i - 1) : ~IsMarker(lines[j], marker)
  ELSE 0

----------------------------------------------------------------------------
(* Sequences, JS arrays, Maps and Sets *)

Range(s) == {s[i] : i \in 1..Len(s)}

\* Array.prototype.indexOf / findIndex on a sequence, 1-based; 0 when absent
IndexOf(s, x) ==
  IF \E i \in 1..Len(s) : s[i] = x
  THEN CHOOSE i \in 1..Len(s) : s[i] = x /\ \A j \in 1..(i - 1) : s[j] # x
  ELSE 0

RECURSIVE Concat(_)
Concat(ss) == IF ss = <<>> THEN <<>> ELSE Head(ss) \o Concat(Tail(ss))

\* Map.has / Map.get / Map.set on a sequence of <<key, value>> pairs
MapKeys(m) == [i \in 1..Len(m) |-> m[i][1]]
MapHas(m, key) == \E i \in 1..Len(m) : m[i][1] = key
MapGet(m, key) == m[IndexOf(MapKeys(m), key)][2]
MapSet(m, key, val) ==
  IF MapHas(m, key)
  THEN [m EXCEPT ![IndexOf(MapKeys(m), key)] = <<key, val>>]
  ELSE Append(m, <<key, val>>)

\* Set.add on a Set of strings
SetAdd(s, x) == IF x \in Range(s) THEN s ELSE Append(s, x)

\* new Set(array) for an array of strings
RECURSIVE SetFromArray(_)
SetFromArray(a) ==
  IF a = <<>> THEN <<>>
  ELSE SetAdd(SetFromArray(SubSeq(a, 1, Len(a) - 1)), a[Len(a)])

\* new Map() filled by set(key, value) for each entry of an array of pairs
RECURSIVE MapFromEntries(_)
MapFromEntries(a) ==
  IF a = <<>> THEN <<>>
  ELSE MapSet(MapFromEntries(SubSeq(a, 1, Len(a) - 1)), a[Len(a)][1], a[Len(a)][2])

\* a variant of the rest pattern that keeps the property
Without_Nothing(obj, field) == obj

\* the object with one property removed / added in front (spread syntax)
Without(obj, field) == [f \in DOMAIN obj \ {field} |-> obj[f]]
Tagged(tag, obj) ==
  [f \in {"type"} \cup DOMAIN obj |-> IF f \in DOMAIN obj THEN obj[f] ELSE tag]

----------------------------------------------------------------------------
(* Results of an operation: the manager and file system after it, the      *)
(* value returned, and whether it ended by throwing                        *)

Ret(w, ret) == [w |-> w, ret |-> ret, threw |-> FALSE]
Throw(w, what) == [w |-> w, ret |-> what, threw |-> TRUE]

\* fs.access / fs.readFile / fs.writeFile on the manager's current path
Access(w) == w.files[w.memoryFilePath].exists
ReadFile(w) == w.files[w.memoryFilePath].lines
WriteFile(w, lines) ==
  [w EXCEPT !.files[w.memoryFilePath] = [@ EXCEPT !.exists = TRUE, !.lines = lines]]

\* fs.readFile / fs.writeFile reject at the manager's current path
ReadFails(w) == "read" \in w.files[w.memoryFilePath].fails
WriteFails(w) == w.files[w.memoryFilePath].fails \cap {"write", "writeOnce"} # {}

\* the fs.readFile of rebuildIndex rejects: the disk rejects every read, or
\* ("reread") the read that follows the one of loadIndex
RereadFails(w) == w.files[w.memoryFilePath].fails \cap {"read", "reread"} # {}

\* the world after a rejected write
Rejected(w) == [w EXCEPT !.files[w.memoryFilePath].fails = @ \ {"writeOnce"}]

----------------------------------------------------------------------------
(* JavaScript values *)

Undefined == "undefined"

\* obj.field, undefined when the object has no such property
Prop(obj, field) == IF field \in DOMAIN obj THEN obj[field] ELSE Undefined

\* an object literal of string properties; a property whose value is
\* undefined is held as an absent property, as JSON.stringify writes it
Defined(obj) == [f \in {g \in DOMAIN obj : obj[g] # Undefined} |-> obj[f]]

\* the graph value { entities: [], relations: [] }
Graph(entities, relations) == [entities |-> entities, relations |-> relations]
EmptyGraph == Graph(<<>>, <<>>)

\* r.from === s.from && r.to === s.to && r.relationType === s.relationType
SameTriple(r, s) ==
  /\ Prop(r, "from") = Prop(s, "from")
  /\ Prop(r, "to") = Prop(s, "to")
  /\ Prop(r, "relationType") = Prop(s, "relationType")

----------------------------------------------------------------------------
(* StorageManager: index construction *)

createEmptyIndex(now) ==
  [metadata |-> [version |-> "1.0.0", entityCount |-> 0, relationCount |-> 0,
                 lastUpdated |-> now, compressionEnabled |-> FALSE],
   entityIndices |-> <<>>,
   typeIndices |-> <<>>,
   relationIndices |-> <<>>]

\* const { type, ...record } = item, for every parsed line of that type
RecordsOfType(parsed, type) ==
  [i \in 1..Len(SelectSeq(parsed, LAMBDA l : Prop(l.v, "type") = type)) |->
     Without(SelectSeq(parsed, LAMBDA l : Prop(l.v, "type") = type)[i].v, "type")]

\* one JSON record per line; lines that do not parse and records whose
\* discriminator is neither "entity" nor "relation" are dropped
parseLegacyFormat(lines) ==
  Graph(RecordsOfType(SelectSeq(lines, LAMBDA l : l.k = "json"), "entity"),
        RecordsOfType(SelectSeq(lines, LAMBDA l : l.k = "json"), "relation"))

\* the EntityIndex built for the entity at file position pos
NewEntityIndex(entity, pos) ==
  [name |-> Prop(entity, "name"),
   entityType |-> Prop(entity, "entityType"),
   observationCount |-> Len(entity.observations),
   relationsFrom |-> <<>>,
   relationsTo |-> <<>>,
   filePosition |-> pos]

\* typeIndices.get(type).add(name), the Set created when the type is new
AddToTypeIndex(typeIndices, type, name) ==
  IF MapHas(typeIndices, type)
  THEN MapSet(typeIndices, type, SetAdd(MapGet(typeIndices, type), name))
  ELSE MapSet(typeIndices, type, <<name>>)

\* the entity loop of buildIndexFromGraph, from entity i on; reading
\* entity.observations.length of a record without observations throws and
\* leaves the index as built so far
RECURSIVE IndexEntities(_, _, _)
IndexEntities(idx, entities, i) ==
  IF i > Len(entities) THEN [idx |-> idx, threw |-> FALSE]
  ELSE IF "observations" \notin DOMAIN entities[i] THEN [idx |-> idx, threw |-> TRUE]
  ELSE IndexEntities(
         [idx EXCEPT
            !.entityIndices = MapSet(@, Prop(entities[i], "name"),
                                     NewEntityIndex(entities[i], i - 1)),
            !.typeIndices = AddToTypeIndex(@, Prop(entities[i], "entityType"),
                                           Prop(entities[i], "name"))],
         entities, i + 1)

\* fromEntity.relationsFrom.push(...) when the from entity is indexed
PushRelationFrom(entityIndices, relation) ==
  IF MapHas(entityIndices, Prop(relation, "from"))
  THEN MapSet(entityIndices, Prop(relation, "from"),
         [MapGet(entityIndices, Prop(relation, "from")) EXCEPT !.relationsFrom =
            Append(@, Defined([relationType |-> Prop(relation, "relationType"),
                               toEntity |-> Prop(relation, "to")]))])
  ELSE entityIndices

\* a variant that leaves a self-loop out of relationsTo
PushRelationTo_NoLoop(entityIndices, relation) ==
  IF MapHas(entityIndices, Prop(relation, "to"))
     /\ Prop(relation, "to") # Prop(relation, "from")
  THEN MapSet(entityIndices, Prop(relation, "to"),
         [MapGet(entityIndices, Prop(relation, "to")) EXCEPT !.relationsTo =
            Append(@, Defined([relationType |-> Prop(relation, "relationType"),
                               fromEntity |-> Prop(relation, "from")]))])
  ELSE entityIndices

\* toEntity.relationsTo.push(...) when the to entity is indexed
PushRelationTo(entityIndices, relation) ==
  IF MapHas(entityIndices, Prop(relation, "to"))
  THEN MapSet(entityIndices, Prop(relation, "to"),
         [MapGet(entityIndices, Prop(relation, "to")) EXCEPT !.relationsTo =
            Append(@, Defined([relationType |-> Prop(relation, "relationType"),
                               fromEntity |-> Prop(relation, "from")]))])
  ELSE entityIndices

\* relationIndices.get(type).add({from, to}), the Set created when the type
\* is new; the object literal is a new member every time
AddToRelationIndex(relationIndices, relation) ==
  IF MapHas(relationIndices, Prop(relation, "relationType"))
  THEN MapSet(relationIndices, Prop(relation, "relationType"),
         Append(MapGet(relationIndices, Prop(relation, "relationType")),
                Defined([from |-> Prop(relation, "from"), to |-> Prop(relation, "to")])))
  ELSE MapSet(relationIndices, Prop(relation, "relationType"),
         <<Defined([from |-> Prop(relation, "from"), to |-> Prop(relation, "to")])>>)

\* the relation loop of buildIndexFromGraph, from relation i on
RECURSIVE IndexRelations(_, _, _)
IndexRelations(idx, relations, i) ==
  IF i > Len(relations) THEN idx
  ELSE IndexRelations(
         [idx EXCEPT
            !.entityIndices = PushRelationTo(PushRelationFrom(@, relations[i]), relations[i]),
            !.relationIndices = AddToRelationIndex(@, relations[i])],
         relations, i + 1)

\* the fresh index with the two counts and the timestamp set
CountedIndex(graph, now) ==
  [createEmptyIndex(now) EXCEPT !.metadata.entityCount = Len(graph.entities),
                                !.metadata.relationCount = Len(graph.relations),
                                !.metadata.lastUpdated = now]

\* buildIndexFromGraph after its entity loop
IndexedEntities(w, graph, ents) ==
  IF ents.threw
  THEN Throw([w EXCEPT !.indexStructure = ents.idx], "TypeError")
  ELSE Ret([w EXCEPT !.indexStructure = IndexRelations(ents.idx, graph.relations, 1)],
           Undefined)

\* this.indexStructure rebuilt from a graph; threw when the entity loop threw
buildIndexFromGraph(w, graph) ==
  IndexedEntities(w, graph,
                  IndexEntities(CountedIndex(graph, w.clock), graph.entities, 1))

----------------------------------------------------------------------------
(* StorageManager: the file layout *)

\* Array.from(map.entries()) with every Set value turned into an array
serializableIndex(idx) ==
  [metadata |-> idx.metadata,
   entityIndices |-> [i \in 1..Len(idx.entityIndices) |-> idx.entityIndices[i]],
   typeIndices |-> [i \in 1..Len(idx.typeIndices) |->
                      <<idx.typeIndices[i][1], idx.typeIndices[i][2]>>],
   relationIndices |-> [i \in 1..Len(idx.relationIndices) |->
                          <<idx.relationIndices[i][1], idx.relationIndices[i][2]>>]]

\* relationSet.add({ from: rel.from, to: rel.to }) for each rel of the array
PairsFromArray(relations) ==
  [j \in 1..Len(relations) |->
     Defined([from |-> Prop(relations[j], "from"), to |-> Prop(relations[j], "to")])]

\* the Maps and Sets of the index rebuilt from the parsed payload
indexFromParsed(parsedIndex) ==
  [metadata |-> Prop(parsedIndex, "metadata"),
   entityIndices |-> MapFromEntries(parsedIndex.entityIndices),
   typeIndices |-> MapFromEntries(
       [i \in 1..Len(parsedIndex.typeIndices) |->
          <<parsedIndex.typeIndices[i][1], SetFromArray(parsedIndex.typeIndices[i][2])>>]),
   relationIndices |-> MapFromEntries(
       [i \in 1..Len(parsedIndex.relationIndices) |->
          <<parsedIndex.relationIndices[i][1],
            PairsFromArray(parsedIndex.relationIndices[i][2])>>])]

\* JSON.parse accepts the text between the index markers and the three
\* arrays the loops of loadIndex iterate are there
ParsesAsIndex(payload) ==
  /\ Len(payload) = 1
  /\ payload[1].k = "json"
  /\ {"entityIndices", "typeIndices", "relationIndices"} \subseteq DOMAIN payload[1].v

dataLines(graph) ==
  [i \in 1..Len(graph.entities) |-> JsonLine(Tagged("entity", graph.entities[i]))]
  \o [i \in 1..Len(graph.relations) |-> JsonLine(Tagged("relation", graph.relations[i]))]

fileContent(idx, graph) ==
  <<INDEX_MARKER_START, JsonLine(serializableIndex(idx)),
    INDEX_MARKER_END, DATA_MARKER_START>> \o dataLines(graph)

saveIndexAndData(w, graph) ==
  IF WriteFails(w) THEN Throw(Rejected(w), "EIO")
  ELSE Ret(WriteFile(w, fileContent(w.indexStructure, graph)), Undefined)

saveIndexAndEmptyData(w) == saveIndexAndData(w, EmptyGraph)

\* await buildIndexFromGraph(graph); await saveIndexAndData(graph):
\* the save, given how the build ended
SaveBuilt(built, graph) ==
  IF built.threw THEN built ELSE saveIndexAndData(built.w, graph)

saveGraph(w, graph) == SaveBuilt(buildIndexFromGraph(w, graph), graph)

----------------------------------------------------------------------------
(* StorageManager: loading *)

\* a variant that keeps the index marked as loaded
setMemoryFilePath_KeepLoaded(w, newPath) == [w EXCEPT !.memoryFilePath = newPath]

setMemoryFilePath(w, newPath) ==
  [w EXCEPT !.memoryFilePath = newPath, !.isIndexLoaded = FALSE]

\* this.isIndexLoaded = true; return this.indexStructure, unless r threw
LoadedIndex(r) ==
  IF r.threw THEN r
  ELSE Ret([r.w EXCEPT !.isIndexLoaded = TRUE], r.w.indexStructure)

\* return this.indexStructure, unless r threw
ReturnIndex(r) == IF r.threw THEN r ELSE Ret(r.w, r.w.indexStructure)

\* parse the whole content as records, index it, write the indexed layout
migrateFromLegacyFormat(w, data) ==
  ReturnIndex(saveGraph(w, parseLegacyFormat(data)))

\* the catch block of rebuildIndex: empty index, file rewritten without data
RebuildCatch(r) ==
  IF r.threw
  THEN ReturnIndex(saveIndexAndEmptyData(
         [r.w EXCEPT !.indexStructure = createEmptyIndex(r.w.clock)]))
  ELSE r

\* a variant that gives up at once: empty index, file rewritten without data
RebuildFrom_Reset(w, data) ==
  LoadedIndex(saveIndexAndEmptyData(
    [w EXCEPT !.indexStructure = createEmptyIndex(w.clock)]))

\* rebuildIndex once the file is read
RebuildFrom(w, data) ==
  IF MarkerPos(data, DATA_MARKER_START) = 0
  THEN migrateFromLegacyFormat(w, data)
  ELSE LoadedIndex(saveGraph(w, parseLegacyFormat(
         SubSeq(data, MarkerPos(data, DATA_MARKER_START) + 1, Len(data)))))

rebuildIndex(w) ==
  IF RereadFails(w) THEN RebuildCatch(Throw(w, "EIO"))
  ELSE RebuildCatch(RebuildFrom(w, ReadFile(w)))

\* a variant of the outer catch block that leaves the index as it stands
LoadCatch_Keep(r) ==
  IF r.threw THEN ReturnIndex(Ret(r.w, Undefined)) ELSE r

\* the outer catch block of loadIndex: empty index, flag and file untouched
LoadCatch(r) ==
  IF r.threw
  THEN ReturnIndex(Ret([r.w EXCEPT !.indexStructure = createEmptyIndex(r.w.clock)],
                       Undefined))
  ELSE r

\* loadIndex once the file is read, with the lines of the two index markers
LoadFrom(w, data, startLine, endLine) ==
  IF startLine = 0
  THEN LoadCatch(LoadedIndex(migrateFromLegacyFormat(w, data)))
  ELSE IF endLine = 0 \/ endLine < startLine
            \/ ~ParsesAsIndex(SubSeq(data, startLine + 1, endLine - 1))
  THEN LoadCatch(rebuildIndex(w))
  ELSE LoadedIndex(Ret([w EXCEPT !.indexStructure =
                          indexFromParsed(data[startLine + 1].v)], Undefined))

loadIndex(w) ==
  IF w.isIndexLoaded THEN Ret(w, w.indexStructure)
  ELSE IF ~Access(w) THEN LoadCatch(LoadedIndex(saveIndexAndEmptyData(w)))
  ELSE IF ReadFails(w) THEN LoadCatch(Throw(w, "EIO"))
  ELSE LoadFrom(w, ReadFile(w), MarkerPos(ReadFile(w), INDEX_MARKER_START),
                MarkerPos(ReadFile(w), INDEX_MARKER_END))

\* the data section of a file's lines: what follows the data marker, or the
\* whole file when it has no data marker
DataSection(data) ==
  IF MarkerPos(data, DATA_MARKER_START) = 0 THEN data
  ELSE SubSeq(data, MarkerPos(data, DATA_MARKER_START) + 1, Len(data))

\* loadFullGraph after its call of loadIndex; a failed read is caught and
\* answered with the empty graph
ReadData(w) ==
  IF ~Access(w) \/ ReadFails(w) THEN Ret(w, EmptyGraph)
  ELSE Ret(w, parseLegacyFormat(DataSection(ReadFile(w))))

loadFullGraph(w) == ReadData(loadIndex(w).w)

----------------------------------------------------------------------------
(* StorageManager: point lookups *)

\* null, as an object so that it compares with records
Null == [null |-> TRUE]

\* if (!this.isIndexLoaded) await this.loadIndex()
EnsureIndex(w) == IF w.isIndexLoaded THEN w ELSE loadIndex(w).w

\* array.find(...) || null, given the matching elements
FirstOrNull(found) == IF found = <<>> THEN Null ELSE found[1]

\* a variant that takes the first entity of the file
FindEntity_First(full, entityName) == Ret(full.w, FirstOrNull(full.ret.entities))

\* fullGraph.entities.find(e => e.name === entityName) || null
FindEntity(full, entityName) ==
  Ret(full.w, FirstOrNull(SelectSeq(full.ret.entities,
                                    LAMBDA e : Prop(e, "name") = entityName)))

\* getEntityByName once the index is loaded
LookupEntity(w, entityName) ==
  IF ~MapHas(w.indexStructure.entityIndices, entityName) THEN Ret(w, Null)
  ELSE FindEntity(loadFullGraph(w), entityName)

getEntityByName(w, entityName) == LookupEntity(EnsureIndex(w), entityName)

\* a variant that forgets the filter
FilterEntities_All(full, entityNames) == Ret(full.w, full.ret.entities)

\* fullGraph.entities.filter(e => entityNames.has(e.name))
FilterEntities(full, entityNames) ==
  Ret(full.w, SelectSeq(full.ret.entities, LAMBDA e : Prop(e, "name") \in entityNames))

\* getEntitiesByType once the index is loaded
LookupEntitiesByType(w, entityType) ==
  IF ~MapHas(w.indexStructure.typeIndices, entityType) THEN Ret(w, <<>>)
  ELSE IF MapGet(w.indexStructure.typeIndices, entityType) = <<>> THEN Ret(w, <<>>)
  ELSE FilterEntities(loadFullGraph(w),
                      Range(MapGet(w.indexStructure.typeIndices, entityType)))

getEntitiesByType(w, entityType) == LookupEntitiesByType(EnsureIndex(w), entityType)

\* fullGraph.relations.filter(r => r.relationType === relationType &&
\*   Array.from(relationPairs).some(pair => pair.from === r.from && pair.to === r.to))
FilterRelations(full, relationType, relationPairs) ==
  Ret(full.w, SelectSeq(full.ret.relations, LAMBDA r :
        /\ Prop(r, "relationType") = relationType
        /\ \E i \in 1..Len(relationPairs) :
             /\ Prop(relationPairs[i], "from") = Prop(r, "from")
             /\ Prop(relationPairs[i], "to") = Prop(r, "to")))

\* getRelationsByType once the index is loaded
LookupRelationsByType(w, relationType) ==
  IF ~MapHas(w.indexStructure.relationIndices, relationType) THEN Ret(w, <<>>)
  ELSE IF MapGet(w.indexStructure.relationIndices, relationType) = <<>> THEN Ret(w, <<>>)
  ELSE FilterRelations(loadFullGraph(w), relationType,
                       MapGet(w.indexStructure.relationIndices, relationType))

getRelationsByType(w, relationType) == LookupRelationsByType(EnsureIndex(w), relationType)

\* The text of a query, and of a stored string when it is searched, is the
\* sequence of its characters. Chars spells the strings of the model that
\* have more than one character; every other string is one character.
Chars(str) ==
  CASE str = "" -> <<>>
    [] str = "t1" -> <<"t", "1">>
    [] str = "t2" -> <<"t", "2">>
    [] str = "r1" -> <<"r", "1">>
    [] str = "r2" -> <<"r", "2">>
    [] str = "R1" -> <<"R", "1">>
    [] str = "ab" -> <<"a", "b">>
    [] str = "-t" -> <<"-", "t">>
    [] str = "auto" -> <<"a", "u", "t", "o">>
    [] str = "to" -> <<"t", "o">>
    [] str = "from" -> <<"f", "r", "o", "m">>
    [] str = "type" -> <<"t", "y", "p", "e">>
    [] str = "relations" -> <<"r", "e", "l", "a", "t", "i", "o", "n", "s">>
    [] OTHER -> <<str>>

\* toLowerCase of one character
LowerChar(c) ==
  CASE c = "A" -> "a"
    [] c = "B" -> "b"
    [] c = "R" -> "r"
    [] c = "T" -> "t"
    [] OTHER -> c

\* String.prototype.toLowerCase
ToLowerCase(str) == [i \in 1..Len(str) |-> LowerChar(str[i])]

\* String.prototype.includes
Includes(str, part) ==
  \E i \in 0..(Len(str) - Len(part)) : SubSeq(str, i + 1, i + Len(part)) = part

\* fullGraph.entities.filter(e => matchingEntityNames.includes(e.name))
FilterByNames(full, matchingEntityNames) ==
  Ret(full.w, SelectSeq(full.ret.entities,
                        LAMBDA e : Prop(e, "name") \in Range(matchingEntityNames)))

\* searchEntitiesByName once the matching index keys are known
SearchMatching(w, matchingEntityNames) ==
  IF matchingEntityNames = <<>> THEN Ret(w, <<>>)
  ELSE FilterByNames(loadFullGraph(w), matchingEntityNames)

\* searchEntitiesByName once the index is loaded
SearchIndex(w, query) ==
  SearchMatching(w, SelectSeq(MapKeys(w.indexStructure.entityIndices),
                              LAMBDA name : Includes(ToLowerCase(Chars(name)),
                                                     ToLowerCase(query))))

searchEntitiesByName(w, query) == SearchIndex(EnsureIndex(w), query)

----------------------------------------------------------------------------
(* StorageManager: mutations *)

\* the names of the entities of an array, in order
NamesOf(entities) == [i \in 1..Len(entities) |-> Prop(entities[i], "name")]

\* a variant that always pushes the entity
UpsertEntity_Push(entities, entity) == Append(entities, entity)

\* replace the first entity of that name, or push the entity
UpsertEntity(entities, entity) ==
  IF IndexOf(NamesOf(entities), Prop(entity, "name")) > 0
  THEN [entities EXCEPT ![IndexOf(NamesOf(entities), Prop(entity, "name"))] = entity]
  ELSE Append(entities, entity)

\* a variant that returns without saving
UpdateEntityIn_Unsaved(full, entity) == Ret(full.w, Undefined)

\* updateEntity once the graph is loaded
UpdateEntityIn(full, entity) ==
  saveGraph(full.w, [full.ret EXCEPT !.entities = UpsertEntity(@, entity)])

updateEntity(w, entity) == UpdateEntityIn(loadFullGraph(EnsureIndex(w)), entity)

\* a variant that pushes the relation without looking for it
UpdateRelationIn_Push(full, relation) ==
  saveGraph(full.w, [full.ret EXCEPT !.relations = Append(@, relation)])

\* a variant that saves the graph as it is when the triple is stored
UpdateRelationIn_Resave(full, relation) ==
  IF \E i \in 1..Len(full.ret.relations) : SameTriple(full.ret.relations[i], relation)
  THEN saveGraph(full.w, full.ret)
  ELSE saveGraph(full.w, [full.ret EXCEPT !.relations = Append(@, relation)])

\* updateRelation once the graph is loaded
UpdateRelationIn(full, relation) ==
  IF \E i \in 1..Len(full.ret.relations) : SameTriple(full.ret.relations[i], relation)
  THEN Ret(full.w, Undefined)
  ELSE saveGraph(full.w, [full.ret EXCEPT !.relations = Append(@, relation)])

updateRelation(w, relation) == UpdateRelationIn(loadFullGraph(EnsureIndex(w)), relation)

\* a variant whose cascade forgets the relations that point at the entity
DeleteEntityIn_FromOnly(full, entityName) ==
  saveGraph(full.w,
    Graph(SelectSeq(full.ret.entities, LAMBDA e : Prop(e, "name") # entityName),
          SelectSeq(full.ret.relations, LAMBDA r : Prop(r, "from") # entityName)))

\* deleteEntity once the graph is loaded
DeleteEntityIn(full, entityName) ==
  saveGraph(full.w,
    Graph(SelectSeq(full.ret.entities, LAMBDA e : Prop(e, "name") # entityName),
          SelectSeq(full.ret.relations, LAMBDA r :
            Prop(r, "from") # entityName /\ Prop(r, "to") # entityName)))

deleteEntity(w, entityName) == DeleteEntityIn(loadFullGraph(EnsureIndex(w)), entityName)

\* a variant that compares the endpoints and forgets the relation type
DeleteRelationIn_ByEndpoints(full, relation) ==
  saveGraph(full.w,
    [full.ret EXCEPT !.relations = SelectSeq(@, LAMBDA r :
       ~(Prop(r, "from") = Prop(relation, "from") /\ Prop(r, "to") = Prop(relation, "to")))])

\* deleteRelation once the graph is loaded
DeleteRelationIn(full, relation) ==
  saveGraph(full.w,
    [full.ret EXCEPT !.relations = SelectSeq(@, LAMBDA r : ~SameTriple(r, relation))])

deleteRelation(w, relation) == DeleteRelationIn(loadFullGraph(EnsureIndex(w)), relation)

----------------------------------------------------------------------------
(* KnowledgeGraphManager: the facade *)

readIndex(w) == loadIndex(w)
readGraph(w) == loadFullGraph(w)
expandEntity(w, entityName) == getEntityByName(w, entityName)

\* return list, unless the loop that stored it threw
Returning(done, list) == IF done.threw THEN done ELSE Ret(done.w, list)

\* for (const entity of newEntities) await updateEntity(entity), from i on
RECURSIVE updateEntitiesFrom(_, _, _)
RECURSIVE updateEntitiesNext(_, _, _)
updateEntitiesFrom(w, list, i) ==
  IF i > Len(list) THEN Ret(w, Undefined)
  ELSE updateEntitiesNext(updateEntity(w, list[i]), list, i + 1)
updateEntitiesNext(done, list, i) ==
  IF done.threw THEN done ELSE updateEntitiesFrom(done.w, list, i)

\* entities.filter(e => !graph.entities.some(existing => existing.name === e.name))
NewEntities(entities, graph) ==
  SelectSeq(entities, LAMBDA e : Prop(e, "name") \notin Range(NamesOf(graph.entities)))

\* createEntities once the graph is loaded
CreateEntitiesIn(full, entities) ==
  Returning(updateEntitiesFrom(full.w, NewEntities(entities, full.ret), 1),
            NewEntities(entities, full.ret))

createEntities(w, entities) == CreateEntitiesIn(loadFullGraph(w), entities)

RECURSIVE updateRelationsFrom(_, _, _)
RECURSIVE updateRelationsNext(_, _, _)
updateRelationsFrom(w, list, i) ==
  IF i > Len(list) THEN Ret(w, Undefined)
  ELSE updateRelationsNext(updateRelation(w, list[i]), list, i + 1)
updateRelationsNext(done, list, i) ==
  IF done.threw THEN done ELSE updateRelationsFrom(done.w, list, i)

\* a variant that compares the endpoints and forgets the relation type
NewRelations_ByEndpoints(relations, graph) ==
  SelectSeq(relations, LAMBDA relation :
    ~\E i \in 1..Len(graph.relations) :
       /\ Prop(graph.relations[i], "from") = Prop(relation, "from")
       /\ Prop(graph.relations[i], "to") = Prop(relation, "to"))

\* relations.filter(relation => !graph.relations.some(r => same triple))
NewRelations(relations, graph) ==
  SelectSeq(relations, LAMBDA relation :
    ~\E i \in 1..Len(graph.relations) : SameTriple(graph.relations[i], relation))

\* createRelations once the graph is loaded
CreateRelationsIn(full, relations) ==
  Returning(updateRelationsFrom(full.w, NewRelations(relations, full.ret), 1),
            NewRelations(relations, full.ret))

createRelations(w, relations) == CreateRelationsIn(loadFullGraph(w), relations)

\* a variant that forgets the filter
NewObservations_Unfiltered(entity, contents) == contents

\* observation.contents.filter(content => !entity.observations.includes(content))
NewObservations(entity, contents) ==
  SelectSeq(contents, LAMBDA content : content \notin Range(entity.observations))

\* the entry pushed onto results, unless the update threw
Added(done, entityName, newObservations) ==
  Returning(done, [entityName |-> entityName, addedObservations |-> newObservations])

\* a variant that skips a missing entity, as deleteObservations does
AddObservationTo_Lenient(got, observation) ==
  IF got.ret = Null THEN Added(got, observation.entityName, <<>>)
  ELSE Added(updateEntity(got.w,
               [got.ret EXCEPT !.observations =
                  @ \o NewObservations(got.ret, observation.contents)]),
             observation.entityName, NewObservations(got.ret, observation.contents))

\* the body of the loop of addObservations once the entity is fetched
AddObservationTo(got, observation) ==
  IF got.ret = Null THEN Throw(got.w, "not found")
  ELSE IF NewObservations(got.ret, observation.contents) # <<>>
  THEN Added(updateEntity(got.w,
               [got.ret EXCEPT !.observations =
                  @ \o NewObservations(got.ret, observation.contents)]),
             observation.entityName, NewObservations(got.ret, observation.contents))
  ELSE Added(got, observation.entityName, <<>>)

addObservation(w, observation) ==
  AddObservationTo(getEntityByName(w, observation.entityName), observation)

\* the loop of addObservations from entry i on, results being collected
RECURSIVE addObservationsFrom(_, _, _, _)
RECURSIVE addObservationsNext(_, _, _, _)
addObservationsFrom(w, observations, i, results) ==
  IF i > Len(observations) THEN Ret(w, results)
  ELSE addObservationsNext(addObservation(w, observations[i]), observations, i + 1, results)
addObservationsNext(done, observations, i, results) ==
  IF done.threw THEN done
  ELSE addObservationsFrom(done.w, observations, i, Append(results, done.ret))

addObservations(w, observations) == addObservationsFrom(w, observations, 1, <<>>)

RECURSIVE deleteEntitiesFrom(_, _, _)
RECURSIVE deleteEntitiesNext(_, _, _)
deleteEntitiesFrom(w, list, i) ==
  IF i > Len(list) THEN Ret(w, Undefined)
  ELSE deleteEntitiesNext(deleteEntity(w, list[i]), list, i + 1)
deleteEntitiesNext(done, list, i) ==
  IF done.threw THEN done ELSE deleteEntitiesFrom(done.w, list, i)

deleteEntities(w, entityNames) == deleteEntitiesFrom(w, entityNames, 1)

\* a variant that removes the first listed string only
DeleteObservationFrom_FirstOnly(got, deletion) ==
  IF got.ret = Null THEN Ret(got.w, Undefined)
  ELSE updateEntity(got.w,
         [got.ret EXCEPT !.observations =
            SelectSeq(@, LAMBDA o : deletion.observations = <<>>
                                      \/ o # deletion.observations[1])])

\* the body of the loop of deleteObservations once the entity is fetched
DeleteObservationFrom(got, deletion) ==
  IF got.ret = Null THEN Ret(got.w, Undefined)
  ELSE updateEntity(got.w,
         [got.ret EXCEPT !.observations =
            SelectSeq(@, LAMBDA o : o \notin Range(deletion.observations))])

deleteObservation(w, deletion) ==
  DeleteObservationFrom(getEntityByName(w, deletion.entityName), deletion)

RECURSIVE deleteObservationsFrom(_, _, _)
RECURSIVE deleteObservationsNext(_, _, _)
deleteObservationsFrom(w, list, i) ==
  IF i > Len(list) THEN Ret(w, Undefined)
  ELSE deleteObservationsNext(deleteObservation(w, list[i]), list, i + 1)
deleteObservationsNext(done, list, i) ==
  IF done.threw THEN done ELSE deleteObservationsFrom(done.w, list, i)

deleteObservations(w, deletions) == deleteObservationsFrom(w, deletions, 1)

RECURSIVE deleteRelationsFrom(_, _, _)
RECURSIVE deleteRelationsNext(_, _, _)
deleteRelationsFrom(w, list, i) ==
  IF i > Len(list) THEN Ret(w, Undefined)
  ELSE deleteRelationsNext(deleteRelation(w, list[i]), list, i + 1)
deleteRelationsNext(done, list, i) ==
  IF done.threw THEN done ELSE deleteRelationsFrom(done.w, list, i)

deleteRelations(w, relations) == deleteRelationsFrom(w, relations, 1)

----------------------------------------------------------------------------
(* KnowledgeGraphManager: search *)

\* \s and \w on the characters of the model: the blank is its only white
\* space, and the blank and the hyphen are its only non-word characters
IsSpace(c) == c = " "
IsWord(c) == c \notin {" ", "-"}

\* (\w+) from position i of str on
RECURSIVE WordAt(_, _)
WordAt(str, i) ==
  IF i > Len(str) THEN <<>>
  ELSE IF ~IsWord(str[i]) THEN <<>>
  ELSE <<str[i]>> \o WordAt(str, i + 1)

\* the position after \s* from position i of str on
RECURSIVE SkipSpace(_, _)
SkipSpace(str, i) ==
  IF i > Len(str) THEN i
  ELSE IF ~IsSpace(str[i]) THEN i
  ELSE SkipSpace(str, i + 1)

\* /keyword\s+(\w+)/i matches str from position i on
MatchesAt(str, keyword, i) ==
  /\ i + Len(keyword) <= Len(str)
  /\ ToLowerCase(SubSeq(str, i, i + Len(keyword) - 1)) = keyword
  /\ IsSpace(str[i + Len(keyword)])
  /\ WordAt(str, SkipSpace(str, i + Len(keyword))) # <<>>

\* the group captured by the match at position i
Captured(str, keyword, i) == WordAt(str, SkipSpace(str, i + Len(keyword)))

\* query.match(/keyword\s+(\w+)/i): the group captured by the leftmost
\* match, which is never empty, or the empty sequence for null
RECURSIVE MatchFrom(_, _, _)
MatchFrom(str, keyword, i) ==
  IF i > Len(str) THEN <<>>
  ELSE IF MatchesAt(str, keyword, i) THEN Captured(str, keyword, i)
  ELSE MatchFrom(str, keyword, i + 1)

Match(str, keyword) == MatchFrom(str, Chars(keyword), 1)

\* String.prototype.trim
RECURSIVE TrimEnd(_)
TrimEnd(str) ==
  IF str = <<>> THEN str
  ELSE IF ~IsSpace(str[Len(str)]) THEN str
  ELSE TrimEnd(SubSeq(str, 1, Len(str) - 1))

Trim(str) == TrimEnd(SubSeq(str, SkipSpace(str, 1), Len(str)))

\* the characters of str from position i up to the next white space
RECURSIVE TermAt(_, _)
TermAt(str, i) ==
  IF i > Len(str) THEN <<>>
  ELSE IF IsSpace(str[i]) THEN <<>>
  ELSE <<str[i]>> \o TermAt(str, i + 1)

\* str.split(/\s+/) of a trimmed string from position i on
RECURSIVE SplitFrom(_, _)
SplitFrom(str, i) ==
  IF i > Len(str) THEN <<>>
  ELSE <<TermAt(str, i)>> \o SplitFrom(str, SkipSpace(str, i + Len(TermAt(str, i))))

\* query.trim().split(/\s+/): the empty string splits into one empty term
Terms(query) ==
  IF Trim(query) = <<>> THEN << <<>> >> ELSE SplitFrom(Trim(query), 1)

\* String.prototype.startsWith
StartsWith(str, prefix) ==
  Len(prefix) <= Len(str) /\ SubSeq(str, 1, Len(prefix)) = prefix

\* the strings that are stored in the files of the model
Strings == Names \cup Types \cup ObsStrings \cup RelTypes \cup {"ab", "-t", "auto"}

\* the stored string with this text, or a string that is no key of any map
StringOf(chars) ==
  IF \E str \in Strings : Chars(str) = chars
  THEN CHOOSE str \in Strings : Chars(str) = chars
  ELSE "?"

\* a variant in which one condition that holds is enough
KeepsRelation_Any(r, relationMatch, fromMatch, toMatch, typeMatch) ==
  \/ relationMatch # <<>> /\ (Chars(r.from) = relationMatch \/ Chars(r.to) = relationMatch)
  \/ fromMatch # <<>> /\ Chars(r.from) = fromMatch
  \/ toMatch # <<>> /\ Chars(r.to) = toMatch
  \/ typeMatch # <<>> /\ Includes(ToLowerCase(Chars(r.relationType)), ToLowerCase(typeMatch))

\* the four filters of the relation branch, each applied if its pattern matched
KeepsRelation(r, relationMatch, fromMatch, toMatch, typeMatch) ==
  /\ relationMatch # <<>> => (Chars(r.from) = relationMatch \/ Chars(r.to) = relationMatch)
  /\ fromMatch # <<>> => Chars(r.from) = fromMatch
  /\ toMatch # <<>> => Chars(r.to) = toMatch
  /\ typeMatch # <<>> =>
       Includes(ToLowerCase(Chars(r.relationType)), ToLowerCase(typeMatch))

\* relatedEntityNames: the from and the to of every relation
EndpointsOf(relations) ==
  {relations[i].from : i \in 1..Len(relations)} \cup {relations[i].to : i \in 1..Len(relations)}

\* the entities that are endpoints of the filtered relations, and the
\* filtered relations
Related(full, filteredRelations) ==
  Ret(full.w, Graph(SelectSeq(full.ret.entities,
                              LAMBDA e : e.name \in EndpointsOf(filteredRelations)),
                    filteredRelations))

\* the relation branch of searchNodes once the graph is loaded
RelationSearch(full, relationMatch, fromMatch, toMatch, typeMatch) ==
  Related(full, SelectSeq(full.ret.relations, LAMBDA r :
    KeepsRelation(r, relationMatch, fromMatch, toMatch, typeMatch)))

\* a variant that keeps the relations with one endpoint among the names
Between_Either(relations, entityNames) ==
  SelectSeq(relations, LAMBDA r : r.from \in entityNames \/ r.to \in entityNames)

\* graph.relations.filter(r => entityNames.has(r.from) && entityNames.has(r.to))
Between(relations, entityNames) ==
  SelectSeq(relations, LAMBDA r : r.from \in entityNames /\ r.to \in entityNames)

\* the found entities and the relations of the loaded graph between them
WithRelations(found, full) ==
  Ret(full.w, Graph(found.ret, Between(full.ret.relations, Range(NamesOf(found.ret)))))

\* const graph = await loadFullGraph() after the entities are found
Induced(found) ==
  IF found.threw THEN found ELSE WithRelations(found, loadFullGraph(found.w))

\* a term is in the name, the type or an observation of the entity
MatchesTerm(e, term) ==
  \/ Includes(ToLowerCase(Chars(e.name)), ToLowerCase(term))
  \/ Includes(ToLowerCase(Chars(e.entityType)), ToLowerCase(term))
  \/ \E i \in 1..Len(e.observations) :
       Includes(ToLowerCase(Chars(e.observations[i])), ToLowerCase(term))

\* the names of the entities that match one of the terms
MatchingNames(entities, terms) ==
  {entities[i].name : i \in {j \in 1..Len(entities) :
     \E k \in 1..Len(terms) : MatchesTerm(entities[j], terms[k])}}

\* the entities of those names and the relations between them
SubGraph(full, names) ==
  Ret(full.w, Graph(SelectSeq(full.ret.entities, LAMBDA e : e.name \in names),
                    Between(full.ret.relations, names)))

\* legacySearchNodes once the graph is loaded: several terms match one by
\* one, a single term matches as the whole query
LegacySearchIn(full, query) ==
  IF Len(Terms(query)) > 1
  THEN SubGraph(full, MatchingNames(full.ret.entities, Terms(query)))
  ELSE SubGraph(full, MatchingNames(full.ret.entities, <<query>>))

legacySearchNodes(w, query) == LegacySearchIn(loadFullGraph(w), query)

\* searchNodes once the index is loaded
Dispatch(w, query) ==
  IF \/ Match(query, "relations") # <<>>
     \/ Match(query, "from") # <<>>
     \/ Match(query, "to") # <<>>
     \/ Match(query, "type") # <<>>
  THEN RelationSearch(loadFullGraph(w), Match(query, "relations"),
                      Match(query, "from"), Match(query, "to"), Match(query, "type"))
  ELSE IF StartsWith(ToLowerCase(query), Chars("type") \o <<" ">>)
  THEN Induced(getEntitiesByType(w, StringOf(Trim(SubSeq(query, 6, Len(query))))))
  ELSE IF Len(Terms(query)) > 1 THEN legacySearchNodes(w, query)
  ELSE Induced(searchEntitiesByName(w, query))

searchNodes(w, query) == Dispatch(loadIndex(w).w, query)

\* for (const name of names) { entity = await getEntityByName(name);
\* if (entity) entities.push(entity) }, from i on
RECURSIVE openNodesFrom(_, _, _, _)
RECURSIVE openNodesNext(_, _, _, _)
openNodesFrom(w, names, i, entities) ==
  IF i > Len(names) THEN Ret(w, entities)
  ELSE openNodesNext(getEntityByName(w, names[i]), names, i + 1, entities)
openNodesNext(got, names, i, entities) ==
  IF got.threw THEN got
  ELSE IF got.ret = Null THEN openNodesFrom(got.w, names, i, entities)
  ELSE openNodesFrom(got.w, names, i, Append(entities, got.ret))

openNodes(w, names) == Induced(openNodesFrom(w, names, 1, <<>>))

----------------------------------------------------------------------------
(* Server: the set_memory_file tool *)

\* a variant that switches without creating the file
set_memory_file_NoCreate(w, newPath) == Ret(setMemoryFilePath(w, newPath), Undefined)

\* case "set_memory_file" for a resolved path: an empty file is written
\* where fs.access fails, then the manager is pointed at the path; a
\* rejected write is caught and answered with an error text, the path
\* unchanged
set_memory_file(w, newPath) ==
  IF w.files[newPath].exists THEN Ret(setMemoryFilePath(w, newPath), Undefined)
  ELSE IF w.files[newPath].fails \cap {"write", "writeOnce"} # {}
  THEN Ret([w EXCEPT !.files[newPath].fails = @ \ {"writeOnce"}], "Error")
  ELSE Ret(setMemoryFilePath(
             [w EXCEPT !.files[newPath] = [@ EXCEPT !.exists = TRUE, !.lines = <<>>]],
             newPath), Undefined)

----------------------------------------------------------------------------
(* The state machine: one manager, the files it can be pointed at, and the  *)
(* most recent call (which operation, and whether it threw)                 *)

W == [files |-> files, memoryFilePath |-> memoryFilePath,
      isIndexLoaded |-> isIndexLoaded, indexStructure |-> indexStructure,
      clock |-> clock]

Entity(name, entityType, observations) ==
  [name |-> name, entityType |-> entityType, observations |-> observations]
Relation(from, to, relationType) ==
  [from |-> from, to |-> to, relationType |-> relationType]

\* the graph held by a file: its data section, or the whole file when it
\* has no data marker
StoredGraph(file) == parseLegacyFormat(DataSection(file.lines))

Current == StoredGraph(files[memoryFilePath])

Call(op, r) ==
  /\ files' = r.w.files
  /\ memoryFilePath' = r.w.memoryFilePath
  /\ isIndexLoaded' = r.w.isIndexLoaded
  /\ indexStructure' = r.w.indexStructure
  /\ clock' = clock
  /\ last' = [op |-> op, threw |-> r.threw]
  /\ pending' = pending

NoCall == [op |-> "none", threw |-> FALSE]

\* the requests in flight: a request that runs alone is one step (Call) and
\* is never in flight
Callers == {"c1", "c2"}
\* path is the path at which the graph of the request was read, kept while
\* the write of that graph is awaited
IdleCall ==
  [pc |-> "idle", op |-> "none", items |-> <<>>, graph |-> EmptyGraph,
   path |-> "", ret |-> <<>>, threw |-> FALSE]
NoPending ==
  [calls |-> [c \in Callers |-> IdleCall], entities |-> {}, relations |-> {},
   overlapped |-> FALSE]

InitManager(path) ==
  /\ pending = NoPending
  /\ memoryFilePath = path
  /\ isIndexLoaded = FALSE
  /\ clock = 0
  /\ indexStructure = createEmptyIndex(0)
  /\ last = NoCall

Tick ==
  /\ clock < MaxClock
  /\ clock' = clock + 1
  /\ UNCHANGED <<files, memoryFilePath, isIndexLoaded, indexStructure, last, pending>>

SetMemoryFilePath(newPath) ==
  Call("setMemoryFilePath", Ret(setMemoryFilePath(W, newPath), Undefined))

ReadIndex == Call("readIndex", readIndex(W))
ReadGraph == Call("readGraph", readGraph(W))
ExpandEntity(name) == Call("expandEntity", expandEntity(W, name))
GetEntitiesByType(type) == Call("getEntitiesByType", getEntitiesByType(W, type))
GetRelationsByType(type) == Call("getRelationsByType", getRelationsByType(W, type))
SearchEntitiesByName(query) ==
  Call("searchEntitiesByName", searchEntitiesByName(W, query))

CreateEntities(entities) == Call("createEntities", createEntities(W, entities))
CreateRelations(relations) == Call("createRelations", createRelations(W, relations))
AddObservations(observations) ==
  Call("addObservations", addObservations(W, observations))
DeleteEntities(names) == Call("deleteEntities", deleteEntities(W, names))
DeleteObservations(deletions) ==
  Call("deleteObservations", deleteObservations(W, deletions))
DeleteRelations(relations) == Call("deleteRelations", deleteRelations(W, relations))
SearchNodes(query) == Call("searchNodes", searchNodes(W, query))
OpenNodes(names) == Call("openNodes", openNodes(W, names))
SetMemoryFile(newPath) == Call("set_memory_file", set_memory_file(W, newPath))

\* all sequences over S of length at most n
SeqsUpTo(S, n) == UNION {[1..k -> S] : k \in 0..n}

----------------------------------------------------------------------------
(* Files found on disk when the server starts *)

LegacyFile(graph) == File(dataLines(graph))

CleanFiles ==
  {Absent, File(<<>>),
   LegacyFile(Graph(<<Entity("A", "t1", <<"x">>)>>, <<>>)),
   LegacyFile(Graph(<<Entity("A", "t1", <<>>), Entity("B", "t2", <<"y">>)>>,
                    <<Relation("A", "B", "r1")>>))}

----------------------------------------------------------------------------
(* SpecEntities: entity and observation requests against one file *)

EntityPool ==
  {Entity("A", "t1", <<>>), Entity("A", "t2", <<"x">>), Entity("B", "t1", <<"x">>)}
EntityArgs == SeqsUpTo(EntityPool, MaxArgs)

ObservationPool ==
  {[entityName |-> "A", contents |-> <<"x">>],
   [entityName |-> "A", contents |-> <<"y", "y">>],
   [entityName |-> "A", contents |-> <<"x", "x", "y">>],
   [entityName |-> "B", contents |-> <<"y">>]}
ObservationArgs == SeqsUpTo(ObservationPool, MaxArgs) \ {<<>>}

DeletionPool ==
  {[entityName |-> "A", observations |-> <<"x">>],
   [entityName |-> "A", observations |-> <<"y", "x">>],
   [entityName |-> "B", observations |-> <<"x">>]}
DeletionArgs == SeqsUpTo(DeletionPool, MaxArgs) \ {<<>>}

NameArgs == SeqsUpTo(Names, MaxArgs) \ {<<>>}

InitEntities ==
  /\ InitManager("p1")
  /\ \E f \in CleanFiles : files = [p \in Paths |-> IF p = "p1" THEN f ELSE Absent]

NextEntities ==
  \/ \E entities \in EntityArgs : CreateEntities(entities)
  \/ \E observations \in ObservationArgs : AddObservations(observations)
  \/ \E deletions \in DeletionArgs : DeleteObservations(deletions)
  \/ \E names \in NameArgs : DeleteEntities(names)
  \/ \E name \in Names : ExpandEntity(name)
  \/ ReadGraph

SpecEntities == InitEntities /\ [][NextEntities]_vars

----------------------------------------------------------------------------
(* SpecRelations: relation requests and entity deletion against one file *)

RelationPool ==
  {Relation("A", "B", "r1"), Relation("A", "B", "r2"), Relation("A", "A", "r2")}
RelationArgs == SeqsUpTo(RelationPool, MaxArgs) \ {<<>>}

PlainEntityArgs == SeqsUpTo({Entity("A", "t1", <<>>), Entity("B", "t1", <<>>)}, 1) \ {<<>>}

NextRelations ==
  \/ \E relations \in RelationArgs : CreateRelations(relations)
  \/ \E relations \in RelationArgs : DeleteRelations(relations)
  \/ \E entities \in PlainEntityArgs : CreateEntities(entities)
  \/ \E names \in NameArgs : DeleteEntities(names)
  \/ \E type \in RelTypes : GetRelationsByType(type)
  \/ \E type \in Types : GetEntitiesByType(type)
  \/ ReadGraph

SpecRelations == InitEntities /\ [][NextRelations]_vars

----------------------------------------------------------------------------
(* Spec: one manager moved between two paths while the wall clock runs;     *)
(* the first path may hold a legacy file whose records repeat a name and a  *)
(* triple                                                                   *)

RepeatingFile ==
  LegacyFile(Graph(<<Entity("A", "t1", <<"x">>), Entity("A", "t2", <<>>)>>,
                   <<Relation("A", "A", "r1"), Relation("A", "A", "r1")>>))

FewEntityArgs ==
  SeqsUpTo({Entity("A", "t1", <<"x">>), Entity("B", "t2", <<>>)}, MaxArgs) \ {<<>>}
FewRelationArgs == SeqsUpTo({Relation("A", "B", "r1")}, MaxArgs) \ {<<>>}

Init ==
  /\ InitManager("p1")
  /\ \E f \in CleanFiles \cup {RepeatingFile} :
       files = [p \in Paths |-> IF p = "p1" THEN f ELSE Absent]

Next ==
  \/ \E newPath \in Paths : SetMemoryFilePath(newPath)
  \/ ReadIndex
  \/ ReadGraph
  \/ \E entities \in FewEntityArgs : CreateEntities(entities)
  \/ \E relations \in FewRelationArgs : CreateRelations(relations)
  \/ \E names \in NameArgs : DeleteEntities(names)
  \/ Tick

Spec == Init /\ [][Next]_vars

----------------------------------------------------------------------------
(* SpecRoundTrip: graphs with unique names and unique triples written by    *)
(* the save path and read back                                              *)

IsInjective(s) == \A i, j \in 1..Len(s) : s[i] = s[j] => i = j

RoundTripEntities ==
  {Entity("A", "t1", <<>>), Entity("A", "t2", <<"x", "x">>), Entity("B", "t1", <<"y", "x">>)}
RoundTripRelations ==
  {Relation("A", "B", "r1"), Relation("A", "B", "r2"), Relation("B", "B", "r1")}

RoundTripGraphs ==
  {Graph(entities, relations) :
     entities \in {es \in SeqsUpTo(RoundTripEntities, MaxArgs) : IsInjective(NamesOf(es))},
     relations \in {rs \in SeqsUpTo(RoundTripRelations, MaxArgs) : IsInjective(rs)}}

SaveGraph(graph) == Call("saveGraph", saveGraph(W, graph))
LoadFullGraph == Call("loadFullGraph", loadFullGraph(W))

NextRoundTrip ==
  \/ \E graph \in RoundTripGraphs : SaveGraph(graph)
  \/ LoadFullGraph
  \/ ReadIndex

SpecRoundTrip == Init /\ [][NextRoundTrip]_vars

----------------------------------------------------------------------------
(* SpecFiles: files that other programs or earlier versions left behind:    *)
(* legacy files with lines that do not parse, records of an unknown type    *)
(* and records lacking a field, and indexed files whose index section is    *)
(* damaged over a sound data section                                        *)

SoundGraph ==
  Graph(<<Entity("A", "t1", <<"x">>), Entity("B", "t2", <<>>)>>,
        <<Relation("A", "B", "r1")>>)

\* a line that does not parse and a record that is neither entity nor relation
NoisyLegacy ==
  File(<<JunkLine, JsonLine([type |-> "note", name |-> "B"])>>
       \o dataLines(Graph(<<Entity("A", "t1", <<"x">>)>>, <<>>)))

\* an entity record without observations after a complete one
ObservationlessLegacy ==
  File(dataLines(Graph(<<Entity("B", "t2", <<"y">>)>>, <<>>))
       \o <<JsonLine([type |-> "entity", name |-> "A", entityType |-> "t1"])>>)

\* a relation record without to after a complete entity
TolessLegacy ==
  File(dataLines(Graph(<<Entity("A", "t1", <<"x">>)>>, <<>>))
       \o <<JsonLine([type |-> "relation", from |-> "A", relationType |-> "r1"])>>)

LegacyFiles ==
  {File(<<>>), LegacyFile(SoundGraph), NoisyLegacy, ObservationlessLegacy, TolessLegacy}

\* the index payload is not JSON
CorruptPayload ==
  File(<<INDEX_MARKER_START, JunkLine, INDEX_MARKER_END, DATA_MARKER_START>>
       \o dataLines(SoundGraph))

\* the index payload is JSON without the three arrays
IncompletePayload ==
  File(<<INDEX_MARKER_START, JsonLine([metadata |-> createEmptyIndex(0).metadata]),
         INDEX_MARKER_END, DATA_MARKER_START>> \o dataLines(SoundGraph))

\* the index-end marker is missing
NoEndMarker ==
  File(<<INDEX_MARKER_START, JsonLine(serializableIndex(createEmptyIndex(0))),
         DATA_MARKER_START>> \o dataLines(SoundGraph))

\* the index-end marker comes before the index-start marker
EndBeforeStart ==
  File(<<INDEX_MARKER_END, INDEX_MARKER_START,
         JsonLine(serializableIndex(createEmptyIndex(0))), DATA_MARKER_START>>
       \o dataLines(SoundGraph))

DamagedFiles == {CorruptPayload, IncompletePayload, NoEndMarker, EndBeforeStart}

InitFiles ==
  /\ InitManager("p1")
  /\ \E f \in LegacyFiles \cup DamagedFiles, g \in {Absent, NoisyLegacy, NoEndMarker} :
       files = [p \in Paths |-> IF p = "p1" THEN f ELSE g]

NextFiles ==
  \/ \E newPath \in Paths : SetMemoryFilePath(newPath)
  \/ ReadIndex
  \/ ReadGraph
  \/ \E name \in Names : ExpandEntity(name)
  \/ \E type \in Types : GetEntitiesByType(type)
  \/ \E type \in RelTypes : GetRelationsByType(type)
  \/ \E query \in Queries : SearchEntitiesByName(query)
  \/ \E entities \in PlainEntityArgs : CreateEntities(entities)

SpecFiles == InitFiles /\ [][NextFiles]_vars

----------------------------------------------------------------------------
(* Vocabulary of the properties *)

\* the graph stored in the file the manager w points at
Stored(w) == StoredGraph(w.files[w.memoryFilePath])

HasEntity(graph, name) == name \in Range(NamesOf(graph.entities))
HasRelation(graph, relation) ==
  \E i \in 1..Len(graph.relations) : SameTriple(graph.relations[i], relation)

\* the observations of the first entity of that name
ObservationsOf(graph, name) ==
  graph.entities[IndexOf(NamesOf(graph.entities), name)].observations

\* what entries 1..n of a result of addObservations report as added to name
RECURSIVE AddedTo(_, _, _)
AddedTo(results, name, n) ==
  IF n = 0 THEN <<>>
  ELSE AddedTo(results, name, n - 1)
       \o (IF results[n].entityName = name THEN results[n].addedObservations ELSE <<>>)

IsPrefix(s, t) == Len(s) <= Len(t) /\ SubSeq(t, 1, Len(s)) = s

\* the paths holding a file in the indexed layout, which only the manager
\* writes
WrittenPaths == {p \in Paths : MarkerPos(files[p].lines, INDEX_MARKER_START) > 0}

\* the index section and the data section of the file at a written path
WrittenIndex(p) == indexFromParsed(files[p].lines[2].v)
WrittenGraph(p) == StoredGraph(files[p])

----------------------------------------------------------------------------
(* C1: for every graph with unique entity names and unique relation        *)
(* triples, the empty graph included, saving it (buildIndexFromGraph then   *)
(* saveIndexAndData) and then calling loadFullGraph returns exactly its     *)
(* entities and exactly its relations.                                      *)

C1_RoundTrip ==
  \A graph \in RoundTripGraphs :
    LET loaded == loadFullGraph(saveGraph(W, graph).w)
    IN ~loaded.threw /\ loaded.ret = graph

\* a graph with two entities and two relations has just been saved and is
\* what loadFullGraph returns, through a manager whose index is not loaded
C1_Witness ==
  /\ last.op = "saveGraph"
  /\ ~isIndexLoaded
  /\ Len(Current.entities) = 2
  /\ Len(Current.relations) = 2
  /\ loadFullGraph(W).ret = Current
  /\ Current \in RoundTripGraphs

----------------------------------------------------------------------------
(* C2: index coherence I1. In every file the manager has written, each      *)
(* entity of the data section has exactly one index entry, with the same    *)
(* entityType and with observationCount equal to its number of              *)
(* observations, and every index entry has an entity of the data section.   *)

EntryMatches(entry, entity) ==
  /\ entry[1] = entity.name
  /\ entry[2].name = entity.name
  /\ entry[2].entityType = entity.entityType
  /\ entry[2].observationCount = Len(entity.observations)

Coherent(idx, graph) ==
  /\ \A e \in Range(graph.entities) :
       /\ Cardinality({i \in 1..Len(idx.entityIndices) :
                         idx.entityIndices[i][1] = e.name}) = 1
       /\ \E i \in 1..Len(idx.entityIndices) : EntryMatches(idx.entityIndices[i], e)
  /\ \A i \in 1..Len(idx.entityIndices) :
       HasEntity(graph, idx.entityIndices[i][1])

C2_IndexCoherence ==
  \A p \in WrittenPaths : Coherent(WrittenIndex(p), WrittenGraph(p))

----------------------------------------------------------------------------
(* C3: count invariant I2. In every file the manager has written,           *)
(* metadata.entityCount is the number of distinct entity names of the data  *)
(* section and the number of entityIndices entries, and                     *)
(* metadata.relationCount is the number of distinct relation triples of     *)
(* the data section.                                                        *)

Counted(idx, graph) ==
  /\ idx.metadata.entityCount = Cardinality(Range(NamesOf(graph.entities)))
  /\ idx.metadata.entityCount = Len(idx.entityIndices)
  /\ idx.metadata.relationCount = Cardinality(Range(graph.relations))

C3_Counts ==
  \A p \in WrittenPaths : Counted(WrittenIndex(p), WrittenGraph(p))

----------------------------------------------------------------------------
(* C4: in every file the manager has written, rebuildIndex run on the data  *)
(* section gives an index equal to the index section: metadata, entity      *)
(* summaries, type index and relation-type index.                           *)

Rebuilt(p) == rebuildIndex(setMemoryFilePath(W, p)).ret

C4_RebuildGivesWritten ==
  \A p \in WrittenPaths : Rebuilt(p) = WrittenIndex(p)

\* C4 without the timestamp, which the code reads from the wall clock
C4_ExceptLastUpdated ==
  \A p \in WrittenPaths :
    [Rebuilt(p) EXCEPT !.metadata.lastUpdated = 0]
      = [WrittenIndex(p) EXCEPT !.metadata.lastUpdated = 0]

----------------------------------------------------------------------------
(* C5: createEntities returns exactly the input entities whose names were   *)
(* not stored before the call, and stores them; entities already stored     *)
(* keep their type and observations; a second call with the same list       *)
(* returns an empty list and leaves the stored graph unchanged.             *)

CreateReturnsNew(entities) ==
  createEntities(W, entities).ret =
    SelectSeq(entities, LAMBDA e : ~HasEntity(Current, e.name))

CreateStoresReturned(entities) ==
  \A e \in Range(createEntities(W, entities).ret) :
    e \in Range(Stored(createEntities(W, entities).w).entities)

CreateKeepsExisting(entities) ==
  /\ IsPrefix(Current.entities, Stored(createEntities(W, entities).w).entities)
  /\ Stored(createEntities(W, entities).w).relations = Current.relations

CreateTwiceIsIdle(entities) ==
  LET once == createEntities(W, entities)
      twice == createEntities(once.w, entities)
  IN twice.ret = <<>> /\ Stored(twice.w) = Stored(once.w)

C5_CreateEntities ==
  \A entities \in EntityArgs :
    /\ CreateReturnsNew(entities)
    /\ CreateStoresReturned(entities)
    /\ CreateKeepsExisting(entities)
    /\ CreateTwiceIsIdle(entities)

\* the parts of C5 that the code keeps
C5_ExceptStoresAll ==
  \A entities \in EntityArgs :
    /\ CreateReturnsNew(entities)
    /\ CreateKeepsExisting(entities)
    /\ CreateTwiceIsIdle(entities)

----------------------------------------------------------------------------
(* C7: addObservations appends to each listed, existing entity only the     *)
(* input strings not already present, in input order, after the existing    *)
(* observations, and returns per entry exactly the strings appended.        *)

\* entry i of a call that returned: what it reports is the contents not yet
\* among the entity's observations when the entry is reached
EntryReportsAppended(before, observations, results, i) ==
  LET name == observations[i].entityName
      present == ObservationsOf(before, name) \o AddedTo(results, name, i - 1)
  IN /\ results[i].entityName = name
     /\ results[i].addedObservations =
          SelectSeq(observations[i].contents, LAMBDA c : c \notin Range(present))

\* every entity holds what it held, followed by what the call reports
AppendedAtEnd(before, after, results) ==
  /\ NamesOf(after.entities) = NamesOf(before.entities)
  /\ after.relations = before.relations
  /\ \A i \in 1..Len(before.entities) :
       /\ after.entities[i].entityType = before.entities[i].entityType
       /\ after.entities[i].observations =
            before.entities[i].observations
            \o AddedTo(results, before.entities[i].name, Len(results))

C7_AddObservations ==
  \A observations \in ObservationArgs :
    LET done == addObservations(W, observations)
    IN ~done.threw =>
         /\ Len(done.ret) = Len(observations)
         /\ \A i \in 1..Len(observations) :
              EntryReportsAppended(Current, observations, done.ret, i)
         /\ AppendedAtEnd(Current, Stored(done.w), done.ret)

\* addObservations has just appended to an entity that holds "x" a list that
\* repeats "x" and brings "y"
C7_Witness ==
  /\ last.op = "addObservations"
  /\ ~last.threw
  /\ HasEntity(Current, "A")
  /\ "x" \in Range(ObservationsOf(Current, "A"))
  /\ "y" \in Range(ObservationsOf(Current, "A"))
  /\ addObservations(W, <<[entityName |-> "A", contents |-> <<"x", "x", "y">>]>>).ret
       = <<[entityName |-> "A", addedObservations |-> <<>>]>>

----------------------------------------------------------------------------
(* C8: addObservations fails with a not-found error when a listed entity    *)
(* does not exist in the stored graph, and never creates that entity.       *)

C8_AddObservationsNotFound ==
  \A observations \in ObservationArgs :
    LET done == addObservations(W, observations)
        names == {observations[i].entityName : i \in 1..Len(observations)}
    IN (\E n \in names : ~HasEntity(Current, n)) =>
         /\ done.threw
         /\ done.ret = "not found"
         /\ \A n \in names : ~HasEntity(Current, n) => ~HasEntity(Stored(done.w), n)

\* addObservations has just thrown, and the entity it named is still absent
C8_Witness ==
  /\ last.op = "addObservations"
  /\ last.threw
  /\ ~HasEntity(Current, "B")

----------------------------------------------------------------------------
(* C6: createRelations returns exactly the input relations whose triple was *)
(* not stored before the call, and stores them; a second call with the same *)
(* list returns an empty list and leaves the stored graph unchanged.        *)

C6_CreateRelations ==
  \A relations \in RelationArgs :
    LET once == createRelations(W, relations)
        twice == createRelations(once.w, relations)
    IN /\ once.ret = SelectSeq(relations, LAMBDA r : ~HasRelation(Current, r))
       /\ Range(Stored(once.w).relations) = Range(Current.relations) \cup Range(once.ret)
       /\ IsPrefix(Current.relations, Stored(once.w).relations)
       /\ Stored(once.w).entities = Current.entities
       /\ twice.ret = <<>>
       /\ Stored(twice.w) = Stored(once.w)

\* createRelations has just stored a relation next to one with the same
\* endpoints and another type: a list naming both reports neither as new
C6_Witness ==
  /\ last.op = "createRelations"
  /\ HasRelation(Current, Relation("A", "B", "r1"))
  /\ HasRelation(Current, Relation("A", "B", "r2"))
  /\ ~HasRelation(Current, Relation("A", "A", "r2"))
  /\ createRelations(W, <<Relation("A", "B", "r2"), Relation("A", "A", "r2")>>).ret
       = <<Relation("A", "A", "r2")>>

----------------------------------------------------------------------------
(* C9: deleting existing entities removes them and every stored relation    *)
(* that starts or ends at one of them, and removes no other entity and no   *)
(* other relation.                                                          *)

C9_Cascade ==
  \A names \in NameArgs :
    (\A n \in Range(names) : HasEntity(Current, n)) =>
      LET done == deleteEntities(W, names)
      IN /\ ~done.threw
         /\ Stored(done.w).entities =
              SelectSeq(Current.entities, LAMBDA e : e.name \notin Range(names))
         /\ Stored(done.w).relations =
              SelectSeq(Current.relations, LAMBDA r :
                r.from \notin Range(names) /\ r.to \notin Range(names))

\* deleteEntities has just removed B, with a relation into B, and left A
\* with its self-loop
C9_Witness ==
  /\ last.op = "deleteEntities"
  /\ HasEntity(Current, "A")
  /\ ~HasEntity(Current, "B")
  /\ Current.relations = <<Relation("A", "A", "r2")>>

----------------------------------------------------------------------------
(* C10: a relation whose from or to names no stored entity can be created   *)
(* and is then returned by loadFullGraph and getRelationsByType; deleting   *)
(* a name that is no stored entity changes neither entities nor relations.  *)

DanglingIsStored(relation) ==
  LET done == createRelations(W, <<relation>>)
  IN /\ ~done.threw
     /\ relation \in Range(loadFullGraph(done.w).ret.relations)
     /\ relation \in Range(getRelationsByType(done.w, relation.relationType).ret)

DeleteUnknownIsIdle(names) ==
  Stored(deleteEntities(W, names).w) = Current

C10_DanglingRelation ==
  /\ \A relation \in RelationPool :
       (~HasEntity(Current, relation.from) \/ ~HasEntity(Current, relation.to))
         => DanglingIsStored(relation)
  /\ \A names \in NameArgs :
       (\A n \in Range(names) : ~HasEntity(Current, n)) => DeleteUnknownIsIdle(names)

\* the part of C10 that the code keeps
C10_DanglingIsStored ==
  \A relation \in RelationPool :
    (~HasEntity(Current, relation.from) \/ ~HasEntity(Current, relation.to))
      => DanglingIsStored(relation)

----------------------------------------------------------------------------
(* C11: deleteObservations removes from each named, existing entity exactly *)
(* the listed strings that it holds, keeps its other observations in their  *)
(* order, and leaves every other entity and every relation unchanged; an    *)
(* entry naming an unknown entity raises no error and changes nothing.      *)

\* the strings listed for name by the entries of a request
ListedFor(deletions, name) ==
  UNION {Range(deletions[i].observations) :
           i \in {j \in 1..Len(deletions) : deletions[j].entityName = name}}

C11_DeleteObservations ==
  \A deletions \in DeletionArgs :
    LET done == deleteObservations(W, deletions)
        after == Stored(done.w)
    IN /\ ~done.threw
       /\ after.relations = Current.relations
       /\ Len(after.entities) = Len(Current.entities)
       /\ \A i \in 1..Len(Current.entities) :
            /\ after.entities[i].name = Current.entities[i].name
            /\ after.entities[i].entityType = Current.entities[i].entityType
            /\ after.entities[i].observations =
                 SelectSeq(Current.entities[i].observations, LAMBDA o :
                   o \notin ListedFor(deletions, Current.entities[i].name))

\* deleteObservations has just left A with "y" alone, and an entry for the
\* unknown B and for strings A does not hold is accepted and changes nothing
C11_Witness ==
  /\ last.op = "deleteObservations"
  /\ HasEntity(Current, "A")
  /\ ~HasEntity(Current, "B")
  /\ ObservationsOf(Current, "A") = <<"y">>
  /\ deleteObservations(W, <<[entityName |-> "A", observations |-> <<"y", "x">>]>>).w
       # W
  /\ Stored(deleteObservations(W, <<[entityName |-> "B", observations |-> <<"x">>]>>).w)
       = Current

----------------------------------------------------------------------------
(* C12: deleteRelations removes exactly the stored relations equal to a     *)
(* listed triple in all three fields; a listed triple that matches no       *)
(* stored relation changes nothing, and no entity is changed by the call.   *)

C12_DeleteRelations ==
  \A relations \in RelationArgs :
    LET done == deleteRelations(W, relations)
    IN /\ ~done.threw
       /\ Stored(done.w).entities = Current.entities
       /\ Stored(done.w).relations =
            SelectSeq(Current.relations, LAMBDA r : r \notin Range(relations))

\* deleteRelations has just removed (A, B, r1) from between two stored
\* entities and left (A, B, r2), which differs in the type alone; listing
\* the removed triple again changes nothing
C12_Witness ==
  /\ last.op = "deleteRelations"
  /\ HasEntity(Current, "A") /\ HasEntity(Current, "B")
  /\ Current.relations = <<Relation("A", "B", "r2")>>
  /\ Stored(deleteRelations(W, <<Relation("A", "B", "r1")>>).w) = Current
  /\ Stored(deleteRelations(W, <<Relation("A", "B", "r2")>>).w).relations = <<>>

----------------------------------------------------------------------------
(* C13: entity names are a primary key. Starting from a file with unique    *)
(* names, after any sequence of createEntities, addObservations,            *)
(* deleteObservations and deleteEntities calls no file holds two entities   *)
(* of the same name.                                                        *)

C13_UniqueNames ==
  \A p \in Paths : IsInjective(NamesOf(StoredGraph(files[p]).entities))

\* createEntities has just stored A with the content of pool entity A:t2
\* next to B; creating A again, twice in one list, adds no second A
C13_Witness ==
  /\ last.op = "createEntities"
  /\ Current.entities = <<Entity("B", "t1", <<"x">>), Entity("A", "t2", <<"x">>)>>
  /\ createEntities(W, <<Entity("A", "t1", <<>>), Entity("A", "t1", <<>>)>>).ret = <<>>

----------------------------------------------------------------------------
(* C14: relations form a set. Starting from a file without duplicate        *)
(* triples, after any sequence of facade operations no file holds two       *)
(* relations equal in from, to and relationType.                            *)

C14_UniqueTriples ==
  \A p \in Paths : IsInjective(StoredGraph(files[p]).relations)

\* createRelations has just stored a second relation, and a list naming a
\* third triple twice stores it once
C14_Witness ==
  /\ last.op = "createRelations"
  /\ Current.relations = <<Relation("A", "B", "r1"), Relation("A", "B", "r2")>>
  /\ Stored(createRelations(W, <<Relation("A", "A", "r2"), Relation("A", "A", "r2")>>).w).relations
       = Append(Current.relations, Relation("A", "A", "r2"))

----------------------------------------------------------------------------
(* C15: no entity holds the same observation string twice. Starting from    *)
(* entities without repeated observations, after any sequence of            *)
(* addObservations and deleteObservations calls, with lists that repeat a   *)
(* string too, every stored observation sequence is free of duplicates.     *)

C15_NoRepeatedObservation ==
  \A p \in Paths :
    \A e \in Range(StoredGraph(files[p]).entities) : IsInjective(e.observations)

----------------------------------------------------------------------------
(* C16: legacy migration. When the file has no index-start marker, the      *)
(* first loadIndex rewrites it in the indexed layout: afterwards the file   *)
(* has the index and data markers, its data section holds exactly the       *)
(* entities and relations of the legacy file, and the returned index is     *)
(* derived from them.                                                       *)

\* the manager has yet to load a file that has no index-start marker
FacesLegacyFile ==
  /\ ~isIndexLoaded
  /\ Access(W)
  /\ MarkerPos(ReadFile(W), INDEX_MARKER_START) = 0

\* loadIndex migrates the legacy file the manager faces
Migrates ==
  LET legacy == parseLegacyFormat(ReadFile(W))
      loaded == loadIndex(W)
      after == ReadFile(loaded.w)
  IN /\ ~loaded.threw
     /\ loaded.w.isIndexLoaded
     /\ MarkerPos(after, INDEX_MARKER_START) > 0
     /\ MarkerPos(after, DATA_MARKER_START) > 0
     /\ Stored(loaded.w) = legacy
     /\ loaded.ret = buildIndexFromGraph(W, legacy).w.indexStructure
     /\ ~buildIndexFromGraph(W, legacy).threw
     /\ after[2] = JsonLine(serializableIndex(loaded.ret))

C16_LegacyMigration == FacesLegacyFile => Migrates

\* C16 for legacy files whose entity records all have observations
C16_WithObservations ==
  (/\ FacesLegacyFile
   /\ \A e \in Range(parseLegacyFormat(ReadFile(W)).entities) :
        "observations" \in DOMAIN e)
    => Migrates

----------------------------------------------------------------------------
(* C17: corrupt index recovery. For a file with a sound data section whose  *)
(* index payload does not parse, or whose index-end marker is missing or    *)
(* comes before the start marker, loadIndex does not fail: it returns the   *)
(* index derived from the data section, rewrites the file with that index   *)
(* and keeps every record of the data section.                              *)

\* the index section of these lines sends loadIndex to rebuildIndex
IndexIsDamaged(data) ==
  /\ MarkerPos(data, INDEX_MARKER_START) > 0
  /\ \/ MarkerPos(data, INDEX_MARKER_END) = 0
     \/ MarkerPos(data, INDEX_MARKER_END) < MarkerPos(data, INDEX_MARKER_START)
     \/ ~ParsesAsIndex(SubSeq(data, MarkerPos(data, INDEX_MARKER_START) + 1,
                              MarkerPos(data, INDEX_MARKER_END) - 1))

\* every line of the data section is a complete entity or relation record
DataIsSound(data) ==
  /\ MarkerPos(data, DATA_MARKER_START) > 0
  /\ dataLines(parseLegacyFormat(DataSection(data))) = DataSection(data)
  /\ \A e \in Range(parseLegacyFormat(DataSection(data)).entities) :
       {"name", "entityType", "observations"} \subseteq DOMAIN e
  /\ \A r \in Range(parseLegacyFormat(DataSection(data)).relations) :
       {"from", "to", "relationType"} \subseteq DOMAIN r

C17_CorruptIndexRecovery ==
  (~isIndexLoaded /\ Access(W) /\ IndexIsDamaged(ReadFile(W)) /\ DataIsSound(ReadFile(W)))
    => LET loaded == loadIndex(W)
           derived == buildIndexFromGraph(W, Current).w.indexStructure
       IN /\ ~loaded.threw
          /\ loaded.w.isIndexLoaded
          /\ loaded.ret = derived
          /\ loaded.w.indexStructure = derived
          /\ derived.metadata.entityCount = Len(Current.entities)
          /\ ReadFile(loaded.w) = fileContent(derived, Current)
          /\ DataSection(ReadFile(loaded.w)) = DataSection(ReadFile(W))

\* readIndex has just rebuilt the file at the second path, which had no
\* index-end marker: the file has one now and holds the same records
C17_Witness ==
  /\ last.op = "readIndex"
  /\ ~last.threw
  /\ memoryFilePath = "p2"
  /\ isIndexLoaded
  /\ Current = SoundGraph
  /\ ReadFile(W) = fileContent(indexStructure, SoundGraph)
  /\ indexStructure.metadata.entityCount = 2

----------------------------------------------------------------------------
(* C18: missing file. In every reachable manager state, loadIndex on a path *)
(* where no file exists returns an index with zero entities, zero relations *)
(* and empty type and relation-type maps, and writes a file whose index     *)
(* section is that empty index and whose data section is empty.             *)

IsEmptyIndex(idx) ==
  /\ idx.metadata.entityCount = 0
  /\ idx.metadata.relationCount = 0
  /\ idx.entityIndices = <<>>
  /\ idx.typeIndices = <<>>
  /\ idx.relationIndices = <<>>

C18_MissingFile ==
  ~Access(W) =>
    LET loaded == loadIndex(W)
    IN /\ ~loaded.threw
       /\ IsEmptyIndex(loaded.ret)
       /\ Access(loaded.w)
       /\ ReadFile(loaded.w) = fileContent(loaded.ret, EmptyGraph)

\* the part of C18 that the code keeps: the file is created with the
\* returned index and without data
C18_CreatesFile ==
  ~Access(W) =>
    LET loaded == loadIndex(W)
    IN /\ ~loaded.threw
       /\ Access(loaded.w)
       /\ ReadFile(loaded.w) = fileContent(loaded.ret, EmptyGraph)

----------------------------------------------------------------------------
(* C19: a path change invalidates the cache. After setMemoryFilePath(p)     *)
(* where a file exists at p, the next loadIndex and every later point       *)
(* lookup (getEntityByName, getEntitiesByType, getRelationsByType,          *)
(* searchEntitiesByName) answer from the file at p and never from index     *)
(* entries cached for the previous path.                                    *)

\* a manager newly constructed on the current path over the same files
Fresh ==
  [W EXCEPT !.isIndexLoaded = FALSE, !.indexStructure = createEmptyIndex(clock)]

\* the index entries without the time of the build
Entries(idx) == [idx EXCEPT !.metadata.lastUpdated = 0]

\* every answer is the answer of a manager that has seen this file only
AnswersFromFile ==
  /\ Entries(loadIndex(W).ret) = Entries(loadIndex(Fresh).ret)
  /\ \A name \in Names :
       getEntityByName(W, name).ret = getEntityByName(Fresh, name).ret
  /\ \A type \in Types :
       getEntitiesByType(W, type).ret = getEntitiesByType(Fresh, type).ret
  /\ \A type \in RelTypes :
       getRelationsByType(W, type).ret = getRelationsByType(Fresh, type).ret
  /\ \A query \in Queries :
       searchEntitiesByName(W, query).ret = searchEntitiesByName(Fresh, query).ret

C19_PathChangeInvalidates == Access(W) => AnswersFromFile

\* the path has just changed from a loaded file holding A and B to a file
\* holding A alone: the cached index still lists B under t2, and the
\* lookups answer from the new file
C19_Witness ==
  /\ last.op = "setMemoryFilePath"
  /\ memoryFilePath = "p2"
  /\ Access(W)
  /\ MapHas(indexStructure.entityIndices, "B")
  /\ ~HasEntity(Current, "B")
  /\ getEntityByName(W, "A").ret = Entity("A", "t1", <<"x">>)
  /\ searchEntitiesByName(W, <<>>).ret = <<Entity("A", "t1", <<"x">>)>>
  /\ ~MapHas(loadIndex(W).ret.entityIndices, "B")

----------------------------------------------------------------------------
(* C20: record-level recovery. loadFullGraph returns exactly the            *)
(* well-formed entity and relation records of the data section: a line      *)
(* that does not parse, a record lacking a required field and a record of   *)
(* an unknown type are omitted, and none of them keeps the other records    *)
(* from being returned or later saved.                                      *)

IsEntityRecord(v) ==
  Prop(v, "type") = "entity" /\ {"name", "entityType", "observations"} \subseteq DOMAIN v
IsRelationRecord(v) ==
  Prop(v, "type") = "relation" /\ {"from", "to", "relationType"} \subseteq DOMAIN v

\* the well-formed records of the data section of the current file
WellFormedRecords ==
  Graph(RecordsOfType(SelectSeq(DataSection(ReadFile(W)),
                                LAMBDA l : l.k = "json" /\ IsEntityRecord(l.v)), "entity"),
        RecordsOfType(SelectSeq(DataSection(ReadFile(W)),
                                LAMBDA l : l.k = "json" /\ IsRelationRecord(l.v)), "relation"))

ReturnsWellFormed ==
  ~loadFullGraph(W).threw /\ loadFullGraph(W).ret = WellFormedRecords

\* a new entity can be saved, next to the well-formed records
SavesNextToWellFormed ==
  \A entities \in PlainEntityArgs :
    ~HasEntity(Current, entities[1].name) =>
      LET done == createEntities(W, entities)
      IN /\ ~done.threw
         /\ Stored(done.w) =
              [WellFormedRecords EXCEPT !.entities = Append(@, entities[1])]

C20_RecordRecovery == Access(W) => (ReturnsWellFormed /\ SavesNextToWellFormed)

\* C20 for data sections whose records of type entity and relation are all
\* complete: lines that do not parse and records of another type are omitted
C20_CompleteRecords ==
  (/\ Access(W)
   /\ \A l \in Range(DataSection(ReadFile(W))) :
        (l.k = "json" /\ Prop(l.v, "type") \in {"entity", "relation"})
          => (IsEntityRecord(l.v) \/ IsRelationRecord(l.v)))
    => (ReturnsWellFormed /\ SavesNextToWellFormed)

----------------------------------------------------------------------------
(* SpecFaults: one manager on a disk that may reject the reads and the      *)
(* writes at the manager's path, for a while or for one write               *)

FaultyFiles ==
  {Absent, LegacyFile(SoundGraph), NoEndMarker,
   File(fileContent(buildIndexFromGraph(
          [files |-> [p \in Paths |-> Absent], memoryFilePath |-> "p1",
           isIndexLoaded |-> FALSE, indexStructure |-> createEmptyIndex(0),
           clock |-> 0],
          Graph(<<Entity("A", "t1", <<"x">>)>>, <<>>)).w.indexStructure,
        Graph(<<Entity("A", "t1", <<"x">>)>>, <<>>)))}

Faults == {{}, {"read"}, {"write"}, {"read", "write"}, {"writeOnce"}}

\* the disk starts or stops rejecting calls at the manager's path
SetFails(calls) ==
  /\ files[memoryFilePath].fails # calls
  /\ files' = [files EXCEPT ![memoryFilePath].fails = calls]
  /\ last' = [op |-> "setFails", threw |-> FALSE]
  /\ UNCHANGED <<memoryFilePath, isIndexLoaded, indexStructure, clock, pending>>

FaultRelationArgs == SeqsUpTo({Relation("A", "B", "r1")}, 1) \ {<<>>}
FaultNameArgs == SeqsUpTo({"A"}, 1) \ {<<>>}

InitFaults ==
  /\ InitManager("p1")
  /\ \E f \in FaultyFiles : files = [p \in Paths |-> IF p = "p1" THEN f ELSE Absent]

NextFaults ==
  \/ \E calls \in Faults : SetFails(calls)
  \/ SetMemoryFilePath("p1")
  \/ ReadIndex
  \/ ReadGraph
  \/ \E name \in Names : ExpandEntity(name)
  \/ \E entities \in PlainEntityArgs : CreateEntities(entities)
  \/ \E relations \in FaultRelationArgs : CreateRelations(relations)
  \/ \E relations \in FaultRelationArgs : DeleteRelations(relations)
  \/ \E names \in FaultNameArgs : DeleteEntities(names)

SpecFaults == InitFaults /\ [][NextFaults]_vars

----------------------------------------------------------------------------
(* C21: a failed read is surfaced. When the file exists and reading it      *)
(* fails, loadFullGraph fails to its caller, and so do loadIndex and the    *)
(* point lookup getEntityByName when they read the file (the index is not   *)
(* loaded); none of them answers with an empty index, an empty graph or     *)
(* "not found".                                                             *)

C21_ReadFailureSurfaces ==
  (Access(W) /\ ReadFails(W)) =>
    /\ loadFullGraph(W).threw
    /\ ~isIndexLoaded =>
         /\ loadIndex(W).threw
         /\ \A name \in Names : getEntityByName(W, name).threw

----------------------------------------------------------------------------
(* C22: after an I/O failure in loadIndex (a rejected read of the existing  *)
(* file, or a rejected write while creating, migrating or rebuilding it)    *)
(* the cached index is the empty index and the index is not marked loaded,  *)
(* so that the next call starts from the file as a new manager would and    *)
(* never from the entries cached before the failure.                        *)

\* loadIndex is about to run into a rejected read or write
LoadHitsFailure ==
  /\ ~isIndexLoaded
  /\ IF ~Access(W) THEN WriteFails(W)
     ELSE \/ ReadFails(W)
          \/ /\ WriteFails(W)
             /\ \/ MarkerPos(ReadFile(W), INDEX_MARKER_START) = 0
                \/ IndexIsDamaged(ReadFile(W))

C22_RebuildWitness ==
  /\ LoadHitsFailure
  /\ Access(W)
  /\ IndexIsDamaged(ReadFile(W))
  /\ loadIndex(W).w.files[memoryFilePath].lines # ReadFile(W)

----------------------------------------------------------------------------
(* C23: a failed write leaves no phantom state. When the file write of      *)
(* updateEntity, updateRelation, deleteEntity or deleteRelation is          *)
(* rejected, the cached index afterwards is the one of the file on disk:    *)
(* it does not reflect the mutation.                                        *)

\* the index is loaded and is the index section of the file on disk
AgreesWithDisk(w) ==
  /\ w.isIndexLoaded
  /\ MarkerPos(ReadFile(w), INDEX_MARKER_START) > 0
  /\ Entries(w.indexStructure) = Entries(indexFromParsed(ReadFile(w)[2].v))

\* how a mutation whose write is rejected has to end
FailsCleanly(r) == r.threw /\ AgreesWithDisk(r.w) /\ ReadFile(r.w) = ReadFile(W)

C23_NoPhantomState ==
  (AgreesWithDisk(W) /\ WriteFails(W)) =>
    /\ \A entity \in EntityPool : FailsCleanly(updateEntity(W, entity))
    /\ \A relation \in RelationPool : FailsCleanly(updateRelation(W, relation))
    /\ \A name \in Names : FailsCleanly(deleteEntity(W, name))
    /\ \A relation \in RelationPool :
         FailsCleanly(deleteRelation(W, relation))

\* the part of C23 that the code keeps: the mutation fails to its caller
\* and the file is as it was
C23_FileUntouched ==
  (AgreesWithDisk(W) /\ WriteFails(W)) =>
    /\ \A entity \in EntityPool :
         updateEntity(W, entity).threw
         /\ ReadFile(updateEntity(W, entity).w) = ReadFile(W)
    /\ \A name \in Names :
         deleteEntity(W, name).threw
         /\ ReadFile(deleteEntity(W, name).w) = ReadFile(W)
----------------------------------------------------------------------------
(* SpecConcurrent: createEntities and createRelations requests of two       *)
(* callers on one manager and one file. A request is suspended at each      *)
(* file read and file write it awaits, and the other caller's request may   *)
(* run in between.                                                          *)

\* the world after a step of a request
Becomes(w) ==
  /\ files' = w.files
  /\ memoryFilePath' = w.memoryFilePath
  /\ isIndexLoaded' = w.isIndexLoaded
  /\ indexStructure' = w.indexStructure
  /\ clock' = clock

InFlight(c) == pending.calls[c].pc \in {"load", "read", "write"}

\* the caller issues createEntities(items) or createRelations(items)
Begin(c, op, items) ==
  /\ pending.calls[c].pc = "idle"
  /\ pending' = [pending EXCEPT
       !.calls[c] = [IdleCall EXCEPT !.pc = "load", !.op = op, !.items = items],
       !.overlapped = @ \/ \E d \in Callers \ {c} : InFlight(d)]
  /\ UNCHANGED <<files, memoryFilePath, isIndexLoaded, indexStructure, clock, last>>

\* the new items of a request, given the graph its first read returned
NewItems(call, graph) ==
  IF call.op = "createEntities" THEN NewEntities(call.items, graph)
  ELSE NewRelations(call.items, graph)

\* const graph = await this.storageManager.loadFullGraph() of the request
\* resolves: the new items are picked
FacadeLoad(c) ==
  /\ pending.calls[c].pc = "load"
  /\ Becomes(loadFullGraph(W).w)
  /\ pending' = [pending EXCEPT !.calls[c] =
       [@ EXCEPT !.items = NewItems(pending.calls[c], loadFullGraph(W).ret),
                 !.ret = NewItems(pending.calls[c], loadFullGraph(W).ret),
                 !.pc = IF NewItems(pending.calls[c], loadFullGraph(W).ret) = <<>>
                        THEN "done" ELSE "read"]]
  /\ last' = last

\* const graph = await this.loadFullGraph() of updateEntity / updateRelation
\* for the next new item resolves
StorageRead(c) ==
  /\ pending.calls[c].pc = "read"
  /\ Becomes(loadFullGraph(EnsureIndex(W)).w)
  /\ pending' = [pending EXCEPT !.calls[c] =
       [@ EXCEPT !.graph = loadFullGraph(EnsureIndex(W)).ret,
                 !.path = memoryFilePath,
                 !.pc = "write"]]
  /\ last' = last

\* the rest of updateEntity / updateRelation on the graph that was read
WriteItem(call) ==
  IF call.op = "createEntities"
  THEN UpdateEntityIn(Ret(W, call.graph), call.items[1])
  ELSE UpdateRelationIn(Ret(W, call.graph), call.items[1])

\* the graph that was read is changed, indexed and written; the loop of the
\* request goes on to its next new item
StorageWrite(c) ==
  /\ pending.calls[c].pc = "write"
  /\ Becomes(WriteItem(pending.calls[c]).w)
  /\ pending' = [pending EXCEPT !.calls[c] =
       [@ EXCEPT !.items = Tail(@),
                 !.graph = EmptyGraph,
                 !.path = "",
                 !.threw = WriteItem(pending.calls[c]).threw,
                 !.pc = IF WriteItem(pending.calls[c]).threw
                           \/ Len(pending.calls[c].items) = 1
                        THEN "done" ELSE "read"]]
  /\ last' = last

\* the request resolves with its new items, or rejects
Return(c) ==
  /\ pending.calls[c].pc = "done"
  /\ pending' = [pending EXCEPT
       !.calls[c] = IdleCall,
       !.entities = IF pending.calls[c].op = "createEntities" /\ ~pending.calls[c].threw
                    THEN @ \cup Range(NamesOf(pending.calls[c].ret)) ELSE @,
       !.relations = IF pending.calls[c].op = "createRelations" /\ ~pending.calls[c].threw
                     THEN @ \cup Range(pending.calls[c].ret) ELSE @]
  /\ last' = [op |-> pending.calls[c].op, threw |-> pending.calls[c].threw]
  /\ UNCHANGED <<files, memoryFilePath, isIndexLoaded, indexStructure, clock>>

ConcurrentEntityArgs ==
  {<<Entity("A", "t1", <<>>)>>, <<Entity("B", "t1", <<"x">>)>>,
   <<Entity("B", "t1", <<"x">>), Entity("A", "t1", <<>>)>>}
ConcurrentRelationArgs == {<<Relation("A", "B", "r1")>>}

InitConcurrent ==
  /\ InitManager("p1")
  /\ \E f \in {Absent, LegacyFile(Graph(<<Entity("A", "t1", <<"x">>)>>, <<>>))} :
       files = [p \in Paths |-> IF p = "p1" THEN f ELSE Absent]

NextConcurrent ==
  \/ \E c \in Callers, entities \in ConcurrentEntityArgs :
       Begin(c, "createEntities", entities)
  \/ \E c \in Callers, relations \in ConcurrentRelationArgs :
       Begin(c, "createRelations", relations)
  \/ \E c \in Callers : FacadeLoad(c)
  \/ \E c \in Callers : StorageRead(c)
  \/ \E c \in Callers : StorageWrite(c)
  \/ \E c \in Callers : Return(c)

SpecConcurrent == InitConcurrent /\ [][NextConcurrent]_vars

----------------------------------------------------------------------------
(* C24: lost update under interleaving. When two creating requests on the   *)
(* same file interleave at their file reads and writes, a state is          *)
(* reachable in which a request has resolved reporting an entity or a       *)
(* relation as created and the file, once every request has resolved, does  *)
(* not hold it; when requests run one at a time no such state is reachable. *)

\* every request has resolved, and something reported as created is not in
\* the file
LostUpdate ==
  /\ \A c \in Callers : pending.calls[c].pc = "idle"
  /\ \/ \E name \in pending.entities : ~HasEntity(Current, name)
     \/ \E relation \in pending.relations : ~HasRelation(Current, relation)

C24_LostUpdateNeedsInterleaving == LostUpdate => pending.overlapped

\* an update is lost
C24_Witness == LostUpdate /\ ~last.threw

\* an entity is lost to a request that created a relation
C24_EntityLostToRelation ==
  /\ LostUpdate
  /\ pending.relations # {}
  /\ \A relation \in pending.relations : HasRelation(Current, relation)
----------------------------------------------------------------------------
(* C25: the type queries agree with the data section. After any sequence    *)
(* of facade requests on one file, getEntitiesByType(T) returns exactly the *)
(* stored entities whose entityType is T and getRelationsByType(R) exactly  *)
(* the stored relations whose relationType is R, each as the full record of *)
(* the data section.                                                        *)

C25_TypeQueries ==
  /\ \A type \in Types :
       LET got == getEntitiesByType(W, type)
       IN /\ ~got.threw
          /\ got.ret = SelectSeq(Current.entities, LAMBDA e : e.entityType = type)
          /\ Stored(got.w) = Current
  /\ \A type \in RelTypes :
       LET got == getRelationsByType(W, type)
       IN /\ ~got.threw
          /\ got.ret = SelectSeq(Current.relations, LAMBDA r : r.relationType = type)
          /\ Stored(got.w) = Current

\* a type query has been answered over a file that holds entities of two
\* types and relations of two types
C25_Witness ==
  /\ last.op \in {"getEntitiesByType", "getRelationsByType"}
  /\ \A type \in Types : getEntitiesByType(W, type).ret # <<>>
  /\ \A type \in RelTypes : getRelationsByType(W, type).ret # <<>>

----------------------------------------------------------------------------
(* C26: point lookup. After any sequence of creates, observation edits and  *)
(* deletes, expandEntity(n) (getEntityByName) returns the stored entity     *)
(* named n whenever one is stored, and returns null without an error        *)
(* exactly when none is stored.                                             *)

C26_PointLookup ==
  \A name \in Names :
    LET got == expandEntity(W, name)
    IN /\ ~got.threw
       /\ IF HasEntity(Current, name)
          THEN got.ret = Current.entities[IndexOf(NamesOf(Current.entities), name)]
          ELSE got.ret = Null

\* a lookup has been answered over a file that holds the second of two
\* entities with its observations, and a name that is not stored
C26_Witness ==
  /\ last.op = "expandEntity"
  /\ Len(Current.entities) = 2
  /\ ObservationsOf(Current, Current.entities[2].name) # <<>>
  /\ expandEntity(W, Current.entities[2].name).ret = Current.entities[2]

\* a lookup of a name that was deleted has been answered with null
C26_NotFoundWitness ==
  /\ last.op = "expandEntity"
  /\ Current.entities # <<>>
  /\ \E name \in Names : expandEntity(W, name).ret = Null
----------------------------------------------------------------------------
(* SpecSearch: searchNodes over a file whose entities and relations are     *)
(* created and deleted; the strings are chosen so that a term can be in a   *)
(* name, a type or an observation only, in upper or lower case              *)

SearchEntityPool ==
  {Entity("A", "t1", <<"x">>), Entity("B", "-t", <<"auto">>), Entity("ab", "t1", <<>>)}
SearchRelationPool ==
  {Relation("A", "B", "r1"), Relation("B", "A", "r2"), Relation("A", "ab", "r1")}

\* the words of a query separated by single blanks
RECURSIVE Join(_)
Join(words) ==
  IF words = <<>> THEN <<>>
  ELSE IF Len(words) = 1 THEN Chars(words[1])
  ELSE Chars(words[1]) \o <<" ">> \o Join(Tail(words))

\* queries of one term
SingleTerms == {"a", "B", "ab", "t1", "x", "auto", "r1"}

\* queries of several plain terms
MultiTerms == {<<"A", "x">>, <<"b", "r1">>, <<"t1", "r2">>, <<"x", "ab">>, <<"auto", "B">>}

\* queries type <T>
QueriedTypes == {"t1", "t2", "-t"}

\* queries made of relations <X>, from <X>, to <X> and type <R>; "" for a
\* token that is not in the query
Conditions(relations, from, to, type) ==
  [relations |-> relations, from |-> from, to |-> to, type |-> type]
RelationQueries ==
  {Conditions("A", "", "", ""), Conditions("", "A", "", ""), Conditions("", "", "B", ""),
   Conditions("", "", "", "r1"), Conditions("", "", "", "R1"), Conditions("", "", "", "r"),
   Conditions("", "", "", "t1"), Conditions("", "A", "B", ""), Conditions("B", "B", "", ""),
   Conditions("", "A", "", "r2"), Conditions("ab", "", "ab", "r1")}

Token(keyword, word) == IF word = "" THEN <<>> ELSE <<keyword, word>>
TextOf(c) ==
  Join(Token("relations", c.relations) \o Token("from", c.from)
       \o Token("to", c.to) \o Token("type", c.type))

SearchQueries ==
  {Chars(term) : term \in SingleTerms} \cup {Join(terms) : terms \in MultiTerms}
  \cup {Join(<<"type", type>>) : type \in QueriedTypes}
  \cup {TextOf(c) : c \in RelationQueries}

\* the lists of names that are opened: empty, one name, two names, a name twice
OpenArgs == SeqsUpTo({"A", "B", "ab"}, 2)

InitSearch ==
  /\ InitManager("p1")
  /\ \E f \in {Absent, LegacyFile(Graph(<<Entity("A", "t1", <<"x">>),
                                          Entity("B", "-t", <<"auto">>)>>,
                                        <<Relation("A", "B", "r1")>>))} :
       files = [p \in Paths |-> IF p = "p1" THEN f ELSE Absent]

NextSearch ==
  \/ \E query \in SearchQueries : SearchNodes(query)
  \/ \E entity \in SearchEntityPool : CreateEntities(<<entity>>)
  \/ \E relation \in SearchRelationPool : CreateRelations(<<relation>>)
  \/ \E entity \in SearchEntityPool : DeleteEntities(<<entity.name>>)
  \/ \E names \in OpenArgs : OpenNodes(names)

SpecSearch == InitSearch /\ [][NextSearch]_vars

\* the term is in the text, whatever the case of the letters
InText(str, term) == Includes(ToLowerCase(Chars(str)), ToLowerCase(Chars(term)))

\* the term is in the name, in the type or in an observation of the entity
Mentions(e, term) ==
  \/ InText(e.name, term)
  \/ InText(e.entityType, term)
  \/ \E o \in Range(e.observations) : InText(o, term)

\* the stored relations between entities of these names
StoredBetween(names) ==
  {r \in Range(Current.relations) : r.from \in names /\ r.to \in names}

\* the result is these entities and the stored relations between them
IsInduced(got, entities) ==
  /\ ~got.threw
  /\ Range(got.ret.entities) = entities
  /\ Range(got.ret.relations) = StoredBetween({e.name : e \in entities})

----------------------------------------------------------------------------
(* C27: single-term search. For a query of one term, searchNodes returns    *)
(* exactly the stored entities that have the term, in any case, in their    *)
(* name, in their entityType or in one of their observations, and exactly   *)
(* the stored relations whose two endpoints are among them.                 *)

C27_SingleTerm ==
  \A term \in SingleTerms :
    IsInduced(searchNodes(W, Chars(term)),
              {e \in Range(Current.entities) : Mentions(e, term)})

\* what the code does for one term: the entities that have it in their name
C27_ByNameOnly ==
  \A term \in SingleTerms :
    IsInduced(searchNodes(W, Chars(term)),
              {e \in Range(Current.entities) : InText(e.name, term)})

----------------------------------------------------------------------------
(* C28: multi-term search has OR semantics. For a query of several plain    *)
(* terms separated by white space, searchNodes returns exactly the stored   *)
(* entities that match at least one term (in name, type or an observation,  *)
(* in any case) and the stored relations between them.                      *)

C28_AnyTerm ==
  \A terms \in MultiTerms :
    IsInduced(searchNodes(W, Join(terms)),
              {e \in Range(Current.entities) :
                 \E term \in Range(terms) : Mentions(e, term)})

\* C28 for the queries in which no term ends in relations, from, to or type
C28_NoKeywordInside ==
  \A terms \in MultiTerms :
    (\A keyword \in {"relations", "from", "to", "type"} :
       Match(Join(terms), keyword) = <<>>)
    => IsInduced(searchNodes(W, Join(terms)),
                 {e \in Range(Current.entities) :
                    \E term \in Range(terms) : Mentions(e, term)})

----------------------------------------------------------------------------
(* C29: entity-type search. A query that begins with type <T> returns       *)
(* exactly the stored entities whose entityType is T and the stored         *)
(* relations between them.                                                  *)

C29_EntityType ==
  \A type \in QueriedTypes :
    IsInduced(searchNodes(W, Join(<<"type", type>>)),
              {e \in Range(Current.entities) : e.entityType = type})

\* C29 for the types that do not begin with a word character
C29_NonWordType ==
  \A type \in QueriedTypes :
    ~IsWord(Chars(type)[1])
    => IsInduced(searchNodes(W, Join(<<"type", type>>)),
                 {e \in Range(Current.entities) : e.entityType = type})

----------------------------------------------------------------------------
(* C30: relation-first search. When the query has relations <X>, from <X>,  *)
(* to <X> or type <R>, the returned relations are exactly the stored        *)
(* relations that satisfy every condition in the query (X is an endpoint;   *)
(* X is the from; X is the to; R is in the relationType, in any case), the  *)
(* returned entities are exactly the stored entities that are an endpoint   *)
(* of a returned relation, and nothing is returned for a term found in a    *)
(* name, a type or an observation.                                          *)

Satisfies(r, c) ==
  /\ c.relations = "" \/ r.from = c.relations \/ r.to = c.relations
  /\ c.from = "" \/ r.from = c.from
  /\ c.to = "" \/ r.to = c.to
  /\ c.type = "" \/ InText(r.relationType, c.type)

C30_RelationFirst ==
  \A c \in RelationQueries :
    LET got == searchNodes(W, TextOf(c))
        kept == {r \in Range(Current.relations) : Satisfies(r, c)}
    IN /\ ~got.threw
       /\ Range(got.ret.relations) = kept
       /\ Range(got.ret.entities) =
            {e \in Range(Current.entities) : \E r \in kept : e.name \in {r.from, r.to}}

\* a search has been answered over a file in which "from A to B" keeps one
\* relation of three and leaves out the entity ab, which has both letters in
\* its name
C30_Witness ==
  /\ last.op = "searchNodes"
  /\ Len(Current.relations) = 3
  /\ \E e \in Range(Current.entities) : e.name = "ab"
  /\ searchNodes(W, TextOf(Conditions("", "A", "B", ""))).ret.relations
       = <<Relation("A", "B", "r1")>>
  /\ Len(searchNodes(W, TextOf(Conditions("", "A", "B", ""))).ret.entities) = 2
----------------------------------------------------------------------------
(* C31: openNodes(names) returns exactly the stored entities whose name is  *)
(* listed, drops the names that no stored entity has without an error, and  *)
(* returns exactly the stored relations whose from and to are both among    *)
(* the returned entities.                                                   *)

C31_OpenNodes ==
  \A names \in OpenArgs :
    IsInduced(openNodes(W, names),
              {e \in Range(Current.entities) : e.name \in Range(names)})

\* a list with a stored name and a name that is not stored has been opened
\* over a file with three relations: one entity and no relation come back
C31_Witness ==
  /\ last.op = "openNodes"
  /\ Len(Current.relations) = 3
  /\ \E e \in Range(Current.entities) : e.name = "A"
  /\ \A e \in Range(Current.entities) : e.name # "B"
  /\ openNodes(W, <<"A", "B">>).ret = Graph(<<Entity("A", "t1", <<"x">>)>>, <<>>)

\* two stored names have been opened and the relations between them, in
\* both directions, come back without the relation to a third entity
C31_InducedWitness ==
  /\ last.op = "openNodes"
  /\ Len(Current.entities) = 3
  /\ Len(Current.relations) = 3
  /\ Len(openNodes(W, <<"B", "A">>).ret.relations) = 2
----------------------------------------------------------------------------
(* C32: updateRelation with a triple that is already stored is a no-op. It  *)
(* does nothing beyond the load that every operation starts with: once the  *)
(* index is loaded it writes no file and leaves the content of every file   *)
(* and the cached index as they were.                                       *)

----------------------------------------------------------------------------
(* C33: adjacency lists are exact. In every index built from a graph, the   *)
(* entry of each entity e has in relationsFrom one {relationType, toEntity} *)
(* item for each stored relation with from = e.name and nothing else, and   *)
(* in relationsTo one {relationType, fromEntity} item for each stored       *)
(* relation with to = e.name and nothing else; a self-loop is in both, a    *)
(* relation with a missing endpoint is on its existing endpoint only.       *)

\* the items for the relations of the graph that leave the entity
Outgoing(graph, name) ==
  LET rs == SelectSeq(graph.relations, LAMBDA r : r.from = name)
  IN [k \in 1..Len(rs) |-> [relationType |-> rs[k].relationType, toEntity |-> rs[k].to]]

\* the items for the relations of the graph that reach the entity
Incoming(graph, name) ==
  LET rs == SelectSeq(graph.relations, LAMBDA r : r.to = name)
  IN [k \in 1..Len(rs) |-> [relationType |-> rs[k].relationType, fromEntity |-> rs[k].from]]

\* every entity of the graph has an entry, and every entry has the lists of
\* its entity
ExactAdjacency(idx, graph) ==
  /\ \A name \in Range(NamesOf(graph.entities)) : MapHas(idx.entityIndices, name)
  /\ \A i \in 1..Len(idx.entityIndices) :
       /\ idx.entityIndices[i][2].relationsFrom = Outgoing(graph, idx.entityIndices[i][1])
       /\ idx.entityIndices[i][2].relationsTo = Incoming(graph, idx.entityIndices[i][1])

C33_AdjacencyLists ==
  /\ ~buildIndexFromGraph(W, Current).threw
  /\ ExactAdjacency(buildIndexFromGraph(W, Current).w.indexStructure, Current)
  /\ isIndexLoaded => ExactAdjacency(indexStructure, Current)
  /\ ExactAdjacency(loadIndex(W).ret, Current)

\* the index was built for a graph with a self-loop on A and a relation from
\* A to B while B is not stored
C33_Witness ==
  /\ isIndexLoaded
  /\ last.op \in {"createRelations", "deleteEntities"}
  /\ HasEntity(Current, "A") /\ ~HasEntity(Current, "B")
  /\ HasRelation(Current, Relation("A", "A", "r2"))
  /\ HasRelation(Current, Relation("A", "B", "r1"))
  /\ Len(MapGet(indexStructure.entityIndices, "A").relationsFrom) >= 2
  /\ Len(MapGet(indexStructure.entityIndices, "A").relationsTo) = 1
----------------------------------------------------------------------------
(* SpecTools: the server switched between two paths by the set_memory_file  *)
(* tool while entities and relations are created                            *)

NextTools ==
  \/ \E newPath \in Paths : SetMemoryFile(newPath)
  \/ ReadIndex
  \/ ReadGraph
  \/ \E entities \in FewEntityArgs : CreateEntities(entities)
  \/ \E relations \in FewRelationArgs : CreateRelations(relations)
  \/ Tick

SpecTools == Init /\ [][NextTools]_vars

----------------------------------------------------------------------------
(* C34: after the set_memory_file tool is called with a path at which no    *)
(* file exists, the file exists, the manager's current path is that path,   *)
(* the next read_index returns an index with zero entities and zero         *)
(* relations and the next read_graph returns the empty graph, whatever      *)
(* graph was loaded before the switch.                                      *)

C34_SetMemoryFile ==
  \A newPath \in Paths :
    ~files[newPath].exists =>
      LET after == set_memory_file(W, newPath).w
      IN /\ Access(after)
         /\ after.memoryFilePath = newPath
         /\ ~readIndex(after).threw
         /\ IsEmptyIndex(readIndex(after).ret)
         /\ IsEmptyIndex(readIndex(readGraph(after).w).ret)
         /\ readGraph(after) = Ret(readGraph(after).w, EmptyGraph)
         /\ readGraph(readIndex(after).w) = Ret(readGraph(readIndex(after).w).w, EmptyGraph)

\* a graph with entities is loaded and cached when the tool is about to be
\* called with a path at which no file exists
C34_Witness ==
  /\ isIndexLoaded
  /\ indexStructure.metadata.entityCount > 0
  /\ Current.entities # <<>>
  /\ \E newPath \in Paths : ~files[newPath].exists

\* the tool has switched to a path it created, leaving the cached entries
\* of the other path behind it
C34_SwitchedWitness ==
  /\ last.op = "set_memory_file"
  /\ ~isIndexLoaded
  /\ indexStructure.metadata.entityCount > 0
  /\ ReadFile(W) = <<>>
----------------------------------------------------------------------------
(* C35: cache coherence. In every reachable state where the index is marked *)
(* loaded and the file has been written only by this manager, the cached    *)
(* index equals the index section of the file on disk and corresponds to    *)
(* the file's data section (same entity names, types, observation counts    *)
(* and relation pairs), after any sequence of loads, successful mutations   *)
(* and path changes.                                                        *)

\* the manager stores one record per name; a data section that repeats a
\* name was taken over from a file of another writer
OwnFile(p) ==
  /\ p \in WrittenPaths
  /\ Cardinality(Range(NamesOf(WrittenGraph(p).entities))) = Len(WrittenGraph(p).entities)

C35_CacheCoherence ==
  (isIndexLoaded /\ OwnFile(memoryFilePath)) =>
    /\ indexStructure = WrittenIndex(memoryFilePath)
    /\ Coherent(indexStructure, Current)

\* the half the code keeps: a loaded index is the index section on disk
C35_CacheIsIndexSection ==
  (isIndexLoaded /\ OwnFile(memoryFilePath)) =>
    indexStructure = WrittenIndex(memoryFilePath)

\* an index with entries is loaded and cached over the file it was saved in
C35_Witness ==
  /\ isIndexLoaded
  /\ OwnFile(memoryFilePath)
  /\ indexStructure.metadata.entityCount > 0
  /\ last.op \in {"createEntities", "deleteEntities", "setMemoryFilePath", "readIndex"}
----------------------------------------------------------------------------
(* SpecRecovery: read-only requests over files that need recovery: a        *)
(* damaged index, a record without a required field, a read that is         *)
(* rejected while the index is rebuilt                                      *)

\* the index payload is not JSON and the data section holds an entity record
\* without observations after a complete one
CorruptObservationless ==
  File(<<INDEX_MARKER_START, JunkLine, INDEX_MARKER_END, DATA_MARKER_START>>
       \o ObservationlessLegacy.lines)

RecoveryFiles ==
  {LegacyFile(SoundGraph), ObservationlessLegacy, CorruptPayload, CorruptObservationless}

RecoveryFaults == {{}, {"read"}, {"reread"}}

RecoveryNameArgs == SeqsUpTo(Names, 1)

InitRecovery ==
  /\ InitManager("p1")
  /\ \E f \in RecoveryFiles, g \in {Absent, CorruptPayload} :
       files = [p \in Paths |-> IF p = "p1" THEN f ELSE g]

NextRecovery ==
  \/ \E calls \in RecoveryFaults : SetFails(calls)
  \/ \E newPath \in Paths : SetMemoryFilePath(newPath)
  \/ ReadIndex
  \/ ReadGraph
  \/ \E name \in Names : ExpandEntity(name)
  \/ \E type \in Types : GetEntitiesByType(type)
  \/ \E type \in RelTypes : GetRelationsByType(type)
  \/ \E query \in Queries : SearchEntitiesByName(query)
  \/ \E query \in Queries : SearchNodes(query)
  \/ \E names \in RecoveryNameArgs : OpenNodes(names)

SpecRecovery == InitRecovery /\ [][NextRecovery]_vars

----------------------------------------------------------------------------
(* C36: read-only operations preserve data. No call to loadIndex,           *)
(* loadFullGraph, a point lookup, searchNodes or openNodes ever removes a   *)
(* well-formed entity or relation record from the file's data section,      *)
(* including when the index payload is corrupt, when a record lacks a       *)
(* required field, and when a file read fails during recovery.              *)

\* the well-formed records of the current file are still stored after r
KeepsRecords(r) ==
  /\ Range(WellFormedRecords.entities) \subseteq Range(Stored(r.w).entities)
  /\ Range(WellFormedRecords.relations) \subseteq Range(Stored(r.w).relations)

ReadsKeepRecords ==
  /\ KeepsRecords(loadIndex(W))
  /\ KeepsRecords(loadFullGraph(W))
  /\ \A name \in Names : KeepsRecords(getEntityByName(W, name))
  /\ \A type \in Types : KeepsRecords(getEntitiesByType(W, type))
  /\ \A type \in RelTypes : KeepsRecords(getRelationsByType(W, type))
  /\ \A query \in Queries :
       KeepsRecords(searchEntitiesByName(W, query)) /\ KeepsRecords(searchNodes(W, query))
  /\ \A names \in RecoveryNameArgs : KeepsRecords(openNodes(W, names))

C36_ReadsPreserveData == Access(W) => ReadsKeepRecords

\* the part the code keeps: files whose index section is sound or missing
\* keep their records, whatever the records lack and whichever read fails
C36_SoundIndex ==
  (Access(W) /\ ~IndexIsDamaged(ReadFile(W))) => ReadsKeepRecords

\* and so do files with a damaged index whose records are complete, as long
\* as the read of the rebuild is accepted
C36_CompleteRecords ==
  (/\ Access(W)
   /\ ~RereadFails(W)
   /\ Stored(W) = WellFormedRecords)
    => ReadsKeepRecords

\* a damaged index over complete records is rebuilt and the records kept
C36_Witness ==
  /\ last.op \in {"readIndex", "readGraph", "searchNodes", "openNodes"}
  /\ isIndexLoaded
  /\ files[memoryFilePath].lines # CorruptPayload.lines
  /\ Stored(W) = SoundGraph
  /\ \E p \in Paths : files[p].lines = CorruptPayload.lines
----------------------------------------------------------------------------
(* C37: a mutation touches only its target. Every entity and relation       *)
(* stored before a successful updateEntity, updateRelation, deleteEntity or *)
(* deleteRelation and not the target (nor a relation incident to a deleted  *)
(* entity) is still stored after it, even if a file read inside the call    *)
(* fails.                                                                   *)

\* r did not throw and kept the stored entities not named name and the
\* stored relations that are neither the triple nor incident to gone
KeepsOthers(r, name, triple, gone) ==
  ~r.threw =>
    /\ \A e \in Range(Stored(W).entities) :
         Prop(e, "name") # name => e \in Range(Stored(r.w).entities)
    /\ \A l \in Range(Stored(W).relations) :
         (~SameTriple(l, triple) /\ l.from # gone /\ l.to # gone)
           => l \in Range(Stored(r.w).relations)

NoTriple == Relation("", "", "")

MutationsKeepOthers ==
  /\ \A entity \in EntityPool :
       KeepsOthers(updateEntity(W, entity), entity.name, NoTriple, "")
  /\ \A relation \in RelationPool :
       KeepsOthers(updateRelation(W, relation), "", NoTriple, "")
  /\ \A name \in Names : KeepsOthers(deleteEntity(W, name), name, NoTriple, name)
  /\ \A relation \in RelationPool :
       KeepsOthers(deleteRelation(W, relation), "", relation, "")

C37_TouchesOnlyTarget == Access(W) => MutationsKeepOthers

\* the part the code keeps: on a disk that rejects no call
C37_WithoutFaults ==
  (Access(W) /\ files[memoryFilePath].fails = {}) => MutationsKeepOthers

\* a mutation has succeeded on a file that holds an entity and a relation
\* next to its target
C37_Witness ==
  /\ last.op \in {"createEntities", "createRelations", "deleteRelations", "deleteEntities"}
  /\ ~last.threw
  /\ Len(Current.entities) + Len(Current.relations) > 1
  /\ files[memoryFilePath].fails = {}

\* the index is loaded over a file with records and the disk rejects reads
\* while it accepts writes
C37_ReadFailsWitness ==
  /\ isIndexLoaded
  /\ Current.entities # <<>>
  /\ ReadFails(W)
  /\ ~WriteFails(W)
----------------------------------------------------------------------------
(* SpecSwitch: createEntities and createRelations requests of one caller on *)
(* a manager whose path is switched between two files while the request is  *)
(* suspended at a read or a write it awaits                                 *)

SwitchEntityArgs == {<<Entity("B", "t1", <<"x">>)>>}
SwitchRelationArgs == {<<Relation("A", "B", "r1")>>}

\* one caller: the switch is what runs while its request is suspended
Switcher == {"c1"}

NextSwitch ==
  \/ \E c \in Switcher, entities \in SwitchEntityArgs :
       Begin(c, "createEntities", entities)
  \/ \E c \in Switcher, relations \in SwitchRelationArgs :
       Begin(c, "createRelations", relations)
  \/ \E c \in Switcher : FacadeLoad(c)
  \/ \E c \in Switcher : StorageRead(c)
  \/ \E c \in Switcher : StorageWrite(c)
  \/ \E c \in Switcher : Return(c)
  \/ \E newPath \in Paths : SetMemoryFilePath(newPath)

SpecSwitch == InitConcurrent /\ [][NextSwitch]_vars

----------------------------------------------------------------------------
(* C38: files stay isolated across a path switch. A mutation writes only to *)
(* the file it read its graph from: if setMemoryFilePath is called while a  *)
(* mutation is suspended between its read and its write, the graph read     *)
(* from the old path is never written to the new path; and after a switch   *)
(* no operation writes to the old file.                                     *)

\* the step is the write of request c
Writes(c) == pending.calls[c].pc = "write" /\ pending'.calls[c].pc # "write"

\* a write leaves the files at the paths it did not read from as they are
WritesWhereItRead ==
  \A c \in Callers :
    Writes(c) => \A p \in Paths \ {pending.calls[c].path} : files'[p] = files[p]

\* a step leaves the files at the paths that are not current as they are
OldFileUntouched == \A p \in Paths \ {memoryFilePath} : files'[p] = files[p]

C38_FilesStayIsolated == [][WritesWhereItRead /\ OldFileUntouched]_vars

\* the part the code keeps: nothing is written at a path that is not current
C38_OldFileUntouched == [][OldFileUntouched]_vars

\* the path was switched while a request is suspended before its write
C38_SwitchedWhileSuspended ==
  \E c \in Callers :
    /\ pending.calls[c].pc = "write"
    /\ pending.calls[c].path # memoryFilePath
    /\ pending.calls[c].graph # EmptyGraph
----------------------------------------------------------------------------
(* C39: the list returned by createEntities never contains two entities     *)
(* with the same name, and the list returned by createRelations never the   *)
(* same triple twice, even when the input list repeats a name or a triple;  *)
(* each key absent before the call is reported as new exactly once, with    *)
(* the content that ends up stored.                                         *)

\* the positions of the returned list that carry the name / the triple
ReportsOf(ret, name) == {i \in 1..Len(ret) : Prop(ret[i], "name") = name}
TripleReportsOf(ret, relation) == {i \in 1..Len(ret) : SameTriple(ret[i], relation)}

EntitiesReportedOnce(entities) ==
  LET done == createEntities(W, entities)
  IN ~done.threw =>
       /\ \A name \in Names : Cardinality(ReportsOf(done.ret, name)) <= 1
       /\ \A e \in Range(entities) :
            ~HasEntity(Current, e.name) => Cardinality(ReportsOf(done.ret, e.name)) = 1
       /\ \A e \in Range(done.ret) : e \in Range(Stored(done.w).entities)

RelationsReportedOnce(relations) ==
  LET done == createRelations(W, relations)
  IN ~done.threw =>
       /\ \A l \in Range(relations) :
            Cardinality(TripleReportsOf(done.ret, l)) =
              (IF HasRelation(Current, l) THEN 0 ELSE 1)
       /\ \A l \in Range(done.ret) : l \in Range(Stored(done.w).relations)

C39_ReportedOnce ==
  /\ \A entities \in EntityArgs : EntitiesReportedOnce(entities)
  /\ \A relations \in RelationArgs : RelationsReportedOnce(relations)

\* the part the code keeps: input lists that repeat no name and no triple
C39_DistinctInput ==
  /\ \A entities \in EntityArgs :
       Cardinality(Range(NamesOf(entities))) = Len(entities)
         => EntitiesReportedOnce(entities)
  /\ \A relations \in RelationArgs :
       Cardinality(Range(relations)) = Len(relations)
         => RelationsReportedOnce(relations)

\* entities and relations have been created and a name is still absent, so
\* that a list repeating it reports it
C39_Witness ==
  /\ last.op \in {"createEntities", "createRelations"}
  /\ ~last.threw
  /\ \E name \in Names : ~HasEntity(Current, name)
  /\ Current.entities # <<>>
====
